---- MODULE Spec2Model ----
(***************************************************************************)
(* Model of the hstat aggregation store (store/store.go): the entry        *)
(* sequence, its count tables and latency samples, under Add, Prune and    *)
(* cap eviction, and the reader/writer lock that guards them.              *)
(***************************************************************************)
EXTENDS Integers, Sequences, FiniteSets, TLC

VARIABLES
    entries,       \* s.entries   []parser.Entry
    window,        \* s.window    0 = keep all
    TotalCount,    \* s.TotalCount
    StatusCounts,  \* s.StatusCounts  status -> count
    HostCounts,    \* s.HostCounts    host -> count
    IPCounts,      \* s.IPCounts      ip -> count
    serviceTimes,  \* s.serviceTimes
    connectTimes,  \* s.connectTimes
    hostToIPs,     \* host -> ip -> count
    ipToHosts,     \* ip -> host -> count
    hostToStatus,  \* host -> status -> count
    ipToStatus,    \* ip -> status -> count
    hostToPaths,   \* host -> path -> count
    ipToPaths,     \* ip -> path -> count
    now,           \* the wall clock read by time.Now()
    mu,            \* s.mu, the sync.RWMutex: its writer and its readers
    pc,            \* where the producer and the consumer goroutine stand
    frame,         \* the arguments, locals and results of their calls
    committed      \* the store as the last completed Add or Prune left it

storeVars == <<entries, TotalCount, StatusCounts, HostCounts, IPCounts,
               serviceTimes, connectTimes, hostToIPs, ipToHosts,
               hostToStatus, ipToStatus, hostToPaths, ipToPaths>>

concVars == <<mu, pc, frame, committed>>

vars == <<storeVars, window, now, concVars>>

----------------------------------------------------------------------------
(* Bounds of the model and the program's constants *)

\* the cap of store.go:12 (100000), scaled so that a run reaches it
maxEntries == 3

\* the entries handed to Add carry the timestamp 0 or MaxTs
MaxTs == 1

\* the non-zero retention window a store is created with
Window == 1

\* the clock starts when the cutoff now - window reaches the oldest timestamp
\* and runs until every timestamp is at or before the cutoff
MinNow == Window
MaxNow == MaxTs + Window

\* status of a WebSocket upgrade, which carries no latency sample
StatusSwitchingProtocols == 101

\* ui_test.go:758, scaled as maxEntries is: the rows a table shows
defaultTopN == 1

\* parser.Entry
E(ts, status, service, connect, host, path, ip) ==
    [Timestamp |-> ts, Status |-> status, Service |-> service,
     Connect |-> connect, Host |-> host, Path |-> path, IP |-> ip]

\* The router log lines handed to Add.  Each field takes two values (old and
\* recent timestamp, a plain and a WebSocket status, a named and an empty
\* host, IP and path) and every two values of two different fields occur
\* together in some line; the latencies of the lines are all different.
Entry ==
    { E(0,     200,                      10, 1, "a.com", "/x", "1.1.1.1"),
      E(0,     200,                      20, 2, "",      "/x", ""),
      E(0,     StatusSwitchingProtocols, 30, 3, "a.com", "",   ""),
      E(0,     StatusSwitchingProtocols, 40, 4, "",      "",   "1.1.1.1"),
      E(MaxTs, 200,                      50, 5, "a.com", "",   ""),
      E(MaxTs, 200,                      60, 6, "",      "",   "1.1.1.1"),
      E(MaxTs, StatusSwitchingProtocols, 70, 7, "a.com", "/x", "1.1.1.1"),
      E(MaxTs, StatusSwitchingProtocols, 80, 8, "",      "/x", "") }

----------------------------------------------------------------------------
(* Go maps: a missing key reads as 0, m[k]++ and m[k]-- create the key *)

EmptyMap == [k \in {} |-> 0]

Get(m, k) == IF k \in DOMAIN m THEN m[k] ELSE 0

Inc(m, k) == [x \in DOMAIN m \cup {k} |-> IF x = k THEN Get(m, k) + 1 ELSE m[x]]

Dec(m, k) == [x \in DOMAIN m \cup {k} |-> IF x = k THEN Get(m, k) - 1 ELSE m[x]]

\* if m[a] == nil { m[a] = make(...) }; m[a][b]++
IncNested(m, a, b) ==
    [x \in DOMAIN m \cup {a} |->
        IF x = a THEN Inc(IF a \in DOMAIN m THEN m[a] ELSE EmptyMap, b) ELSE m[x]]

\* if m[a] != nil { m[a][b]-- }
DecNested(m, a, b) ==
    IF a \in DOMAIN m THEN [m EXCEPT ![a] = Dec(m[a], b)] ELSE m

GetNested(m, a, b) == IF a \in DOMAIN m THEN Get(m[a], b) ELSE 0

\* empty host, IP and path are stored under "(unknown)"
Normalize(x) == IF x = "" THEN "(unknown)" ELSE x

\* time.Time.After
After(t, u) == t > u

\* s.entries[count:] on a 1-based sequence
Drop(seq, count) == SubSeq(seq, count + 1, Len(seq))

----------------------------------------------------------------------------
(* The store as a value, so that Add, pruneOldest and the queries are      *)
(* functions of it                                                         *)

Store ==
    [entries |-> entries, TotalCount |-> TotalCount,
     StatusCounts |-> StatusCounts, HostCounts |-> HostCounts,
     IPCounts |-> IPCounts, serviceTimes |-> serviceTimes,
     connectTimes |-> connectTimes, hostToIPs |-> hostToIPs,
     ipToHosts |-> ipToHosts, hostToStatus |-> hostToStatus,
     ipToStatus |-> ipToStatus, hostToPaths |-> hostToPaths,
     ipToPaths |-> ipToPaths]

\* store.New
New ==
    [entries |-> <<>>, TotalCount |-> 0,
     StatusCounts |-> EmptyMap, HostCounts |-> EmptyMap,
     IPCounts |-> EmptyMap, serviceTimes |-> <<>>,
     connectTimes |-> <<>>, hostToIPs |-> EmptyMap,
     ipToHosts |-> EmptyMap, hostToStatus |-> EmptyMap,
     ipToStatus |-> EmptyMap, hostToPaths |-> EmptyMap,
     ipToPaths |-> EmptyMap]

SetStore(s) ==
    /\ entries' = s.entries
    /\ TotalCount' = s.TotalCount
    /\ StatusCounts' = s.StatusCounts
    /\ HostCounts' = s.HostCounts
    /\ IPCounts' = s.IPCounts
    /\ serviceTimes' = s.serviceTimes
    /\ connectTimes' = s.connectTimes
    /\ hostToIPs' = s.hostToIPs
    /\ ipToHosts' = s.ipToHosts
    /\ hostToStatus' = s.hostToStatus
    /\ ipToStatus' = s.ipToStatus
    /\ hostToPaths' = s.hostToPaths
    /\ ipToPaths' = s.ipToPaths

----------------------------------------------------------------------------
(* pruneOldest, store.go:177-234 *)

\* PruneIter with the path cell of the host looked up under the raw path
PruneIter_RawPath(s, e) ==
    LET host == Normalize(e.Host)
        ip   == Normalize(e.IP)
        path == Normalize(e.Path)
    IN [s EXCEPT
          !.TotalCount   = @ - 1,
          !.StatusCounts = Dec(@, e.Status),
          !.HostCounts   = Dec(@, host),
          !.IPCounts     = Dec(@, ip),
          !.hostToIPs    = DecNested(@, host, ip),
          !.ipToHosts    = DecNested(@, ip, host),
          !.hostToStatus = DecNested(@, host, e.Status),
          !.ipToStatus   = DecNested(@, ip, e.Status),
          !.hostToPaths  = DecNested(@, host, e.Path),
          !.ipToPaths    = DecNested(@, ip, path)]

\* PruneIter without the decrement of ipToHosts
PruneIter_NoIpToHosts(s, e) ==
    LET host == Normalize(e.Host)
        ip   == Normalize(e.IP)
        path == Normalize(e.Path)
    IN [s EXCEPT
          !.TotalCount   = @ - 1,
          !.StatusCounts = Dec(@, e.Status),
          !.HostCounts   = Dec(@, host),
          !.IPCounts     = Dec(@, ip),
          !.hostToIPs    = DecNested(@, host, ip),
          !.hostToStatus = DecNested(@, host, e.Status),
          !.ipToStatus   = DecNested(@, ip, e.Status),
          !.hostToPaths  = DecNested(@, host, path),
          !.ipToPaths    = DecNested(@, ip, path)]

\* one iteration of the decrement loop, for the entry e = s.entries[i]
PruneIter(s, e) ==
    LET host == Normalize(e.Host)
        ip   == Normalize(e.IP)
        path == Normalize(e.Path)
    IN [s EXCEPT
          !.TotalCount   = @ - 1,
          !.StatusCounts = Dec(@, e.Status),
          !.HostCounts   = Dec(@, host),
          !.IPCounts     = Dec(@, ip),
          !.hostToIPs    = DecNested(@, host, ip),
          !.ipToHosts    = DecNested(@, ip, host),
          !.hostToStatus = DecNested(@, host, e.Status),
          !.ipToStatus   = DecNested(@, ip, e.Status),
          !.hostToPaths  = DecNested(@, host, path),
          !.ipToPaths    = DecNested(@, ip, path)]

\* PruneLoop running one iteration too many (i <= count)
RECURSIVE PruneLoop_OneMore(_, _, _)
PruneLoop_OneMore(s, i, count) ==
    IF i > count + 1 \/ i > Len(s.entries) THEN s
    ELSE PruneLoop_OneMore(PruneIter(s, s.entries[i]), i + 1, count)

\* the loop over i = 0 .. count-1; the entries are read from s.entries,
\* which the loop does not change
RECURSIVE PruneLoop(_, _, _)
PruneLoop(s, i, count) ==
    IF i > count THEN s
    ELSE PruneLoop(PruneIter(s, s.entries[i]), i + 1, count)

\* timingCount: the evicted entries that carry a latency sample
TimingCount(es, count) ==
    Cardinality({i \in 1..count : es[i].Status # StatusSwitchingProtocols})

\* PruneSlice cutting the evicted entries off the tail of entries
PruneSlice_Tail(s, count, timingCount) ==
    [s EXCEPT
       !.entries      = SubSeq(@, 1, Len(@) - count),
       !.serviceTimes = Drop(@, timingCount),
       !.connectTimes = Drop(@, timingCount)]

\* the final slicing of entries and of both latency sequences
PruneSlice(s, count, timingCount) ==
    [s EXCEPT
       !.entries      = Drop(@, count),
       !.serviceTimes = Drop(@, timingCount),
       !.connectTimes = Drop(@, timingCount)]

\* pruneOldest trimming as many latency samples as entries
pruneOldest_TrimCount(s, count) ==
    IF count <= 0 \/ count > Len(s.entries) THEN s
    ELSE PruneSlice(PruneLoop(s, 1, count), count, count)

pruneOldest(s, count) ==
    IF count <= 0 \/ count > Len(s.entries) THEN s
    ELSE PruneSlice(PruneLoop(s, 1, count), count, TimingCount(s.entries, count))

----------------------------------------------------------------------------
(* Add, store.go:83-152 *)

\* AddBody counting a host only when the line names one
AddBody_SkipEmptyHost(s, e) ==
    LET host == Normalize(e.Host)
        ip   == Normalize(e.IP)
        path == Normalize(e.Path)
        timed == e.Status # StatusSwitchingProtocols
    IN [s EXCEPT
          !.entries      = Append(@, e),
          !.TotalCount   = @ + 1,
          !.StatusCounts = Inc(@, e.Status),
          !.HostCounts   = IF e.Host = "" THEN @ ELSE Inc(@, host),
          !.IPCounts     = Inc(@, ip),
          !.serviceTimes = IF timed THEN Append(@, e.Service) ELSE @,
          !.connectTimes = IF timed THEN Append(@, e.Connect) ELSE @,
          !.hostToIPs    = IncNested(@, host, ip),
          !.ipToHosts    = IncNested(@, ip, host),
          !.hostToStatus = IncNested(@, host, e.Status),
          !.ipToStatus   = IncNested(@, ip, e.Status),
          !.hostToPaths  = IncNested(@, host, path),
          !.ipToPaths    = IncNested(@, ip, path)]

\* AddBody recording a latency sample for every line, a WebSocket upgrade
\* included
AddBody_SampleAll(s, e) ==
    LET host == Normalize(e.Host)
        ip   == Normalize(e.IP)
        path == Normalize(e.Path)
    IN [s EXCEPT
          !.entries      = Append(@, e),
          !.TotalCount   = @ + 1,
          !.StatusCounts = Inc(@, e.Status),
          !.HostCounts   = Inc(@, host),
          !.IPCounts     = Inc(@, ip),
          !.serviceTimes = Append(@, e.Service),
          !.connectTimes = Append(@, e.Connect),
          !.hostToIPs    = IncNested(@, host, ip),
          !.ipToHosts    = IncNested(@, ip, host),
          !.hostToStatus = IncNested(@, host, e.Status),
          !.ipToStatus   = IncNested(@, ip, e.Status),
          !.hostToPaths  = IncNested(@, host, path),
          !.ipToPaths    = IncNested(@, ip, path)]

\* the statements of lines 101-146 one by one, as a goroutine runs them
AddStmts == 12

AddStmt(s, e, k) ==
    LET host == Normalize(e.Host)
        ip   == Normalize(e.IP)
        path == Normalize(e.Path)
        timed == e.Status # StatusSwitchingProtocols
    IN CASE k = 1  -> [s EXCEPT !.entries = Append(@, e)]
         [] k = 2  -> [s EXCEPT !.TotalCount = @ + 1]
         [] k = 3  -> [s EXCEPT !.StatusCounts = Inc(@, e.Status)]
         [] k = 4  -> [s EXCEPT !.HostCounts = Inc(@, host)]
         [] k = 5  -> [s EXCEPT !.IPCounts = Inc(@, ip)]
         [] k = 6  -> [s EXCEPT
                         !.serviceTimes = IF timed THEN Append(@, e.Service) ELSE @,
                         !.connectTimes = IF timed THEN Append(@, e.Connect) ELSE @]
         [] k = 7  -> [s EXCEPT !.hostToIPs = IncNested(@, host, ip)]
         [] k = 8  -> [s EXCEPT !.ipToHosts = IncNested(@, ip, host)]
         [] k = 9  -> [s EXCEPT !.hostToStatus = IncNested(@, host, e.Status)]
         [] k = 10 -> [s EXCEPT !.ipToStatus = IncNested(@, ip, e.Status)]
         [] k = 11 -> [s EXCEPT !.hostToPaths = IncNested(@, host, path)]
         [] k = 12 -> [s EXCEPT !.ipToPaths = IncNested(@, ip, path)]

\* lines 101-146 as a whole: the append and every increment
AddBody(s, e) ==
    LET host == Normalize(e.Host)
        ip   == Normalize(e.IP)
        path == Normalize(e.Path)
        timed == e.Status # StatusSwitchingProtocols
    IN [s EXCEPT
          !.entries      = Append(@, e),
          !.TotalCount   = @ + 1,
          !.StatusCounts = Inc(@, e.Status),
          !.HostCounts   = Inc(@, host),
          !.IPCounts     = Inc(@, ip),
          !.serviceTimes = IF timed THEN Append(@, e.Service) ELSE @,
          !.connectTimes = IF timed THEN Append(@, e.Connect) ELSE @,
          !.hostToIPs    = IncNested(@, host, ip),
          !.ipToHosts    = IncNested(@, ip, host),
          !.hostToStatus = IncNested(@, host, e.Status),
          !.ipToStatus   = IncNested(@, ip, e.Status),
          !.hostToPaths  = IncNested(@, host, path),
          !.ipToPaths    = IncNested(@, ip, path)]

\* CapEvict evicting one entry too few
CapEvict_OneLess(s) ==
    IF Len(s.entries) > maxEntries
    THEN pruneOldest(s, Len(s.entries) - maxEntries - 1)
    ELSE s

\* lines 148-151: cap at maxEntries
CapEvict(s) ==
    IF Len(s.entries) > maxEntries
    THEN pruneOldest(s, Len(s.entries) - maxEntries)
    ELSE s

AddEntry(s, e) == CapEvict(AddBody(s, e))

----------------------------------------------------------------------------
(* Prune, store.go:155-175 *)

\* PruneCount counting the first entry after the cutoff in
PruneCount_OneMore(es, cutoff) ==
    LET after == {i \in 1..Len(es) : After(es[i].Timestamp, cutoff)}
    IN IF after = {} THEN 0
       ELSE CHOOSE i \in after : \A j \in after : i <= j

\* the scan of lines 164-170: the index of the first entry after the cutoff,
\* and 0 when there is none
PruneCount(es, cutoff) ==
    LET after == {i \in 1..Len(es) : After(es[i].Timestamp, cutoff)}
    IN IF after = {} THEN 0
       ELSE (CHOOSE i \in after : \A j \in after : i <= j) - 1

PruneStore(s, w, t) ==
    LET pruneCount == PruneCount(s.entries, t - w)
    IN IF pruneCount > 0 THEN pruneOldest(s, pruneCount) ELSE s

----------------------------------------------------------------------------
(* GetStats, store.go:249-296, and GetUniqueCounts, store.go:478-505 *)

\* sort.Ints on a copy
RECURSIVE Insert(_, _)
Insert(sorted, x) ==
    IF sorted = <<>> THEN <<x>>
    ELSE IF x <= Head(sorted) THEN <<x>> \o sorted
    ELSE <<Head(sorted)>> \o Insert(Tail(sorted), x)

RECURSIVE SortInts(_)
SortInts(seq) ==
    IF seq = <<>> THEN <<>> ELSE Insert(SortInts(Tail(seq)), Head(seq))

RECURSIVE SumSeq(_)
SumSeq(seq) == IF seq = <<>> THEN 0 ELSE Head(seq) + SumSeq(Tail(seq))

\* the largest element, starting from 0 as the loop of lines 284-290 does
RECURSIVE MaxFromZero(_)
MaxFromZero(seq) ==
    IF seq = <<>> THEN 0
    ELSE LET m == MaxFromZero(Tail(seq))
         IN IF Head(seq) > m THEN Head(seq) ELSE m

\* times[idx] for a 0-based Go index
At(times, idx) == times[idx + 1]

\* line 253: stats := Stats{TotalCount: s.TotalCount}
StatsOfTotal(total) ==
    [TotalCount |-> total, AvgService |-> 0, P50Service |-> 0,
     P95Service |-> 0, P99Service |-> 0, MaxService |-> 0,
     AvgConnect |-> 0, MaxConnect |-> 0]

\* PercentileIndex rounding up
PercentileIndex_RoundUp(n, p) == (n * p + 99) \div 100

\* len(times)*p/100, the 0-based index at which the percentile p is read
PercentileIndex(n, p) == (n * p) \div 100

\* lines 274-277: the index of the 99th percentile, kept below len(times)
P99Index(n) ==
    IF PercentileIndex(n, 99) >= n THEN n - 1 ELSE PercentileIndex(n, 99)

\* WithService reading the samples in the order they were stored
WithService_Unsorted(stats, serviceSamples) ==
    LET times == serviceSamples
        n == Len(times)
    IN [stats EXCEPT
          !.AvgService = SumSeq(times) \div n,
          !.P50Service = At(times, PercentileIndex(n, 50)),
          !.P95Service = At(times, PercentileIndex(n, 95)),
          !.P99Service = At(times, P99Index(n)),
          !.MaxService = At(times, n - 1)]

\* lines 259-279: the service fields, from a non-empty s.serviceTimes
WithService(stats, serviceSamples) ==
    LET times == SortInts(serviceSamples)
        n == Len(times)
    IN [stats EXCEPT
          !.AvgService = SumSeq(times) \div n,
          !.P50Service = At(times, PercentileIndex(n, 50)),
          !.P95Service = At(times, PercentileIndex(n, 95)),
          !.P99Service = At(times, P99Index(n)),
          !.MaxService = At(times, n - 1)]

\* lines 281-293: the connect fields
WithConnect(stats, connectSamples) ==
    IF Len(connectSamples) > 0
    THEN [stats EXCEPT
            !.AvgConnect = SumSeq(connectSamples) \div Len(connectSamples),
            !.MaxConnect = MaxFromZero(connectSamples)]
    ELSE stats

GetStats(s) ==
    IF Len(s.serviceTimes) = 0 THEN StatsOfTotal(s.TotalCount)
    ELSE WithConnect(WithService(StatsOfTotal(s.TotalCount), s.serviceTimes),
                     s.connectTimes)

\* the keys of a count map whose count is positive
Positive(m) == {k \in DOMAIN m : m[k] > 0}

GetUniqueCounts(s) ==
    [hosts |-> Cardinality(Positive(s.HostCounts)),
     ips   |-> Cardinality(Positive(s.IPCounts)),
     paths |-> Cardinality(UNION {Positive(s.hostToPaths[h]) :
                                     h \in DOMAIN s.hostToPaths})]

----------------------------------------------------------------------------
(* The top-N queries and GetStatusCounts, store.go:311-441.  A nil map      *)
(* reads as an empty one and a nil slice as an empty one: range and len do  *)
(* not tell them apart.                                                     *)

\* m[a] of a nested map, nil when a is no key of it
NestedMap(m, a) == IF a \in DOMAIN m THEN m[a] ELSE EmptyMap

\* CountItem
CountItem(label, count) == [Label |-> label, Count |-> count]

\* StatusCountItem
StatusCountItem(status, count) == [Status |-> status, Count |-> count]

\* every order in which a range over a map can append the items to a slice:
\* Go leaves the iteration order of a map unspecified
Orderings(items) ==
    {seq \in [1..Cardinality(items) -> items] :
        \A i, j \in 1..Cardinality(items) : i # j => seq[i] # seq[j]}

\* items[:n] when len(items) > n
Truncate(items, n) == IF Len(items) > n THEN SubSeq(items, 1, n) ELSE items

\* topN keeping the labels whose count is 0
topN_KeepZero(counts, n) ==
    LET items == {CountItem(label, counts[label]) : label \in DOMAIN counts}
        sorted == {seq \in Orderings(items) :
                     \A i, j \in 1..Len(seq) :
                        i < j => ~(seq[j].Count > seq[i].Count)}
    IN {Truncate(seq, n) : seq \in sorted}

\* topN, lines 401-422: the slices it can return.  sort.Slice is not stable
\* and the items arrive in map order, so items of equal count can come out
\* in any order; the outcome is any order in which no item has a larger
\* count than one before it.
topN(counts, n) ==
    LET items == {CountItem(label, counts[label]) : label \in Positive(counts)}
        sorted == {seq \in Orderings(items) :
                     \A i, j \in 1..Len(seq) :
                        i < j => ~(seq[j].Count > seq[i].Count)}
    IN {Truncate(seq, n) : seq \in sorted}

\* GetTopHosts reading the table of the hosts for the filter
GetTopHosts_ByHostTable(s, n, filterIP) ==
    topN(IF filterIP # "" THEN NestedMap(s.hostToIPs, filterIP)
         ELSE s.HostCounts, n)

\* lines 344-357
GetTopHosts(s, n, filterIP) ==
    topN(IF filterIP # "" THEN NestedMap(s.ipToHosts, filterIP)
         ELSE s.HostCounts, n)

\* lines 360-373
GetTopIPs(s, n, filterHost) ==
    topN(IF filterHost # "" THEN NestedMap(s.hostToIPs, filterHost)
         ELSE s.IPCounts, n)

\* other += count, over the labels a range over the map selects
RECURSIVE AddUp(_, _)
AddUp(counts, labels) ==
    IF labels = {} THEN 0
    ELSE LET label == CHOOSE x \in labels : TRUE
         IN counts[label] + AddUp(counts, labels \ {label})

\* GetOtherCount adding up every positive count, the top labels included
GetOtherCount_All(counts, top) ==
    AddUp(counts, Positive(counts))

\* lines 425-441: the counts of the labels that are not in topN
GetOtherCount(counts, top) ==
    LET topSet == {top[i].Label : i \in 1..Len(top)}
    IN AddUp(counts, {label \in DOMAIN counts :
                        label \notin topSet /\ counts[label] > 0})

\* sort.Slice by Status: the statuses of the items are the keys of one map,
\* all different, so the outcome is the one ascending order
RECURSIVE SortByStatus(_)
SortByStatus(items) ==
    IF items = {} THEN <<>>
    ELSE LET first == CHOOSE x \in items : \A y \in items : ~(y.Status < x.Status)
         IN <<first>> \o SortByStatus(items \ {first})

\* GetStatusCounts keeping the statuses whose count is 0
GetStatusCounts_KeepZero(s, filterHost, filterIP) ==
    LET counts == IF filterHost # "" THEN NestedMap(s.hostToStatus, filterHost)
                  ELSE IF filterIP # "" THEN NestedMap(s.ipToStatus, filterIP)
                  ELSE s.StatusCounts
    IN SortByStatus({StatusCountItem(status, counts[status]) :
                        status \in DOMAIN counts})

\* lines 311-341
GetStatusCounts(s, filterHost, filterIP) ==
    LET counts == IF filterHost # "" THEN NestedMap(s.hostToStatus, filterHost)
                  ELSE IF filterIP # "" THEN NestedMap(s.ipToStatus, filterIP)
                  ELSE s.StatusCounts
    IN SortByStatus({StatusCountItem(status, counts[status]) :
                        status \in Positive(counts)})

\* lines 15-24: the paths hidden from display
excludedPaths == {"/ahoy/events", "/ahoy/visits", "/robots.txt"}

excludedPathPrefixes == {"/system-status-", "/hirefire"}

\* strings.HasPrefix
HasPrefix(str, prefix) ==
    Len(str) >= Len(prefix) /\ SubSeq(str, 1, Len(prefix)) = prefix

\* isExcludedPath comparing with the listed paths only
isExcludedPath_ExactOnly(path) ==
    \E excluded \in excludedPaths : path = excluded

\* lines 27-39
isExcludedPath(path) ==
    \/ \E excluded \in excludedPaths : path = excluded
    \/ \E prefix \in excludedPathPrefixes : HasPrefix(path, prefix)

\* lines 389-396: the copy of a count map without the excluded paths
Filtered(counts) ==
    [path \in {p \in DOMAIN counts : ~isExcludedPath(p)} |-> counts[path]]

\* lines 376-399
GetTopPaths(s, n, host, ip) ==
    IF host # "" THEN topN(Filtered(NestedMap(s.hostToPaths, host)), n)
    ELSE IF ip # "" THEN topN(Filtered(NestedMap(s.ipToPaths, ip)), n)
    ELSE {<<>>}

\* lines 658-673: the positive counts of every path that is not excluded,
\* added up over the hosts
GetAllPaths(s, n) ==
    LET shown(host) == {p \in DOMAIN s.hostToPaths[host] :
                          s.hostToPaths[host][p] > 0 /\ ~isExcludedPath(p)}
        pathCounts ==
          [path \in UNION {shown(host) : host \in DOMAIN s.hostToPaths} |->
             AddUp([host \in DOMAIN s.hostToPaths |->
                       IF path \in shown(host) THEN s.hostToPaths[host][path]
                       ELSE 0],
                   DOMAIN s.hostToPaths)]
    IN topN(pathCounts, n)

----------------------------------------------------------------------------
(* float64, as far as the rates need it: zero, and the normal numbers as a  *)
(* sign, the exponent of the leading bit and the 53 bits of the significand, *)
(* leading bit first.  Every operation rounds to nearest, ties to even.      *)

\* the bits of a float64 significand
SignificandBits == 53

F64Zero == [sign |-> 0, exp |-> 0, bits |-> <<>>]

\* n zero bits
Zeros(n) == [i \in 1..n |-> 0]

\* the number with sign sign whose leading bit has the exponent exp and
\* whose bits, leading bit first, are all; inexact says that further
\* non-zero bits follow.  Rounded to SignificandBits bits.
Round(sign, exp, all, inexact) ==
    IF Len(all) <= SignificandBits
    THEN [sign |-> sign, exp |-> exp,
          bits |-> all \o Zeros(SignificandBits - Len(all))]
    ELSE LET kept == SubSeq(all, 1, SignificandBits)
             guard == all[SignificandBits + 1]
             sticky == inexact \/ \E i \in (SignificandBits + 2)..Len(all) : all[i] = 1
             up == guard = 1 /\ (sticky \/ kept[SignificandBits] = 1)
             zeros == {i \in 1..SignificandBits : kept[i] = 0}
             last == CHOOSE i \in zeros : \A j \in zeros : j <= i
         IN IF ~up THEN [sign |-> sign, exp |-> exp, bits |-> kept]
            ELSE IF zeros = {}
            \* the carry leaves the leading bit: the next power of two
            THEN [sign |-> sign, exp |-> exp + 1,
                  bits |-> <<1>> \o Zeros(SignificandBits - 1)]
            \* kept plus one
            ELSE [sign |-> sign, exp |-> exp,
                  bits |-> [i \in 1..SignificandBits |->
                               IF i < last THEN kept[i]
                               ELSE IF i = last THEN 1 ELSE 0]]

\* long division: n further digits to the base base of the quotient whose
\* remainder so far is r
RECURSIVE QuotientDigits(_, _, _, _, _)
QuotientDigits(r, den, base, n, acc) ==
    IF n = 0 THEN [digits |-> acc, rem |-> r]
    ELSE QuotientDigits((r * base) % den, den, base, n - 1,
                        Append(acc, (r * base) \div den))

\* the exponent of the leading bit of a/b, for a > 0 and b > 0
RECURSIVE Exponent(_, _)
Exponent(a, b) ==
    IF a >= 2 * b THEN Exponent(a, 2 * b) + 1
    ELSE IF a < b THEN Exponent(2 * a, b) - 1
    ELSE 0

\* float64(a) / float64(b) for integers a >= 0 and b > 0 that a float64
\* holds exactly: the quotient a/b, rounded
F64Div(a, b) ==
    IF a = 0 THEN F64Zero
    ELSE LET exp == Exponent(a, b)
             num == IF exp < 0 THEN a * 2^(0 - exp) ELSE a
             den == IF exp > 0 THEN b * 2^exp ELSE b
             \* six digits of nine bits after the leading bit
             q == QuotientDigits(num - den, den, 2^9, 6, <<>>)
             bit(i) == (q.digits[((i - 1) \div 9) + 1]
                           \div 2^(8 - ((i - 1) % 9))) % 2
         IN Round(0, exp, <<1>> \o [i \in 1..54 |-> bit(i)], q.rem # 0)

F64Neg(x) == IF x = F64Zero THEN x ELSE [x EXCEPT !.sign = 1 - @]

\* the bit sequence a is below the bit sequence b of the same length
BitsLess(a, b) ==
    \E i \in 1..Len(a) :
       /\ a[i] < b[i]
       /\ \A j \in 1..(i - 1) : a[j] = b[j]

\* x - y for x >= 0 and y >= 0: the exact difference, rounded
F64Sub(x, y) ==
    IF y = F64Zero THEN x
    ELSE IF x = F64Zero THEN F64Neg(y)
    ELSE LET top == IF x.exp > y.exp THEN x.exp ELSE y.exp
             low == (IF x.exp < y.exp THEN x.exp ELSE y.exp) - SignificandBits + 1
             \* both numbers as bit sequences from the exponent top down to low
             wide(z) == Zeros(top - z.exp) \o z.bits
                          \o Zeros(z.exp - SignificandBits + 1 - low)
             neg == BitsLess(wide(x), wide(y))
             a == IF neg THEN wide(y) ELSE wide(x)
             b == IF neg THEN wide(x) ELSE wide(y)
             \* a - b: a bit borrows when the bits after it are less in a
             differ == {j \in 1..Len(a) : a[j] # b[j]}
             borrow(i) ==
                 LET after == {j \in differ : j > i}
                 IN IF after = {} THEN 0
                    ELSE IF a[CHOOSE j \in after : \A k \in after : j <= k] = 0
                    THEN 1 ELSE 0
             diff == [i \in 1..Len(a) |-> (a[i] - b[i] - borrow(i) + 2) % 2]
             ones == {i \in 1..Len(diff) : diff[i] = 1}
         IN IF ones = {} THEN F64Zero
            ELSE LET lead == CHOOSE i \in ones : \A j \in ones : i <= j
                 IN Round(IF neg THEN 1 ELSE 0, top - (lead - 1),
                          SubSeq(diff, lead, Len(diff)), FALSE)

\* x > y
F64Greater(x, y) ==
    LET greater(u, v) ==
            \/ u.exp > v.exp
            \/ u.exp = v.exp /\ BitsLess(v.bits, u.bits)
    IN IF x = F64Zero THEN y # F64Zero /\ y.sign = 1
       ELSE IF y = F64Zero THEN x.sign = 0
       ELSE IF x.sign # y.sign THEN x.sign = 0
       ELSE IF x.sign = 0 THEN greater(x, y)
       ELSE greater(y, x)

----------------------------------------------------------------------------
(* The error rates, store.go:455-475 and 531-578 and 676-707 *)

\* lines 532-535
ErrorRates(rate4xx, rate5xx) == [Rate4xx |-> rate4xx, Rate5xx |-> rate5xx]

\* float64(count) * 100 / float64(total): count * 100 is exact
Percent(count, total) == F64Div(count * 100, total)

\* GetErrorRates with the 5xx class open above, as calculateErrorRates has it
GetErrorRates_Open5xx(s) ==
    IF s.TotalCount = 0 THEN ErrorRates(F64Zero, F64Zero)
    ELSE LET keys == DOMAIN s.StatusCounts
             count4xx == AddUp(s.StatusCounts,
                               {st \in keys : st >= 400 /\ st < 500})
             count5xx == AddUp(s.StatusCounts, {st \in keys : st >= 500})
         IN ErrorRates(Percent(count4xx, s.TotalCount),
                       Percent(count5xx, s.TotalCount))

\* lines 455-475
GetErrorRates(s) ==
    IF s.TotalCount = 0 THEN ErrorRates(F64Zero, F64Zero)
    ELSE LET keys == DOMAIN s.StatusCounts
             count4xx == AddUp(s.StatusCounts,
                               {st \in keys : st >= 400 /\ st < 500})
             count5xx == AddUp(s.StatusCounts,
                               {st \in keys : st >= 500 /\ st < 600})
         IN ErrorRates(Percent(count4xx, s.TotalCount),
                       Percent(count5xx, s.TotalCount))

\* lines 553-578; a nil map ranges over nothing, as the empty one
calculateErrorRates(statusCounts) ==
    LET keys == {st \in DOMAIN statusCounts : statusCounts[st] > 0}
        total == AddUp(statusCounts, keys)
        count4xx == AddUp(statusCounts, {st \in keys : st >= 400 /\ st < 500})
        count5xx == AddUp(statusCounts, {st \in keys : st >= 500})
    IN IF total = 0 THEN ErrorRates(F64Zero, F64Zero)
       ELSE ErrorRates(Percent(count4xx, total), Percent(count5xx, total))

\* lines 537-543
GetErrorRatesForHost(s, host) ==
    calculateErrorRates(NestedMap(s.hostToStatus, host))

\* lines 545-551
GetErrorRatesForIP(s, ip) ==
    calculateErrorRates(NestedMap(s.ipToStatus, ip))

\* lines 676-707: a scan of the entries
GetErrorRatesForPath(s, path) ==
    LET es == s.entries
        hits == {i \in 1..Len(es) : Normalize(es[i].Path) = path}
        count4xx == Cardinality({i \in hits : es[i].Status >= 400
                                               /\ es[i].Status < 500})
        count5xx == Cardinality({i \in hits : es[i].Status >= 500})
        total == Cardinality(hits)
    IN IF total = 0 THEN ErrorRates(F64Zero, F64Zero)
       ELSE ErrorRates(Percent(count4xx, total), Percent(count5xx, total))

----------------------------------------------------------------------------
(* The trend of the error rate, store.go:581-645 *)

\* lines 583-587
TrendStable == 0
TrendUp == 1
TrendDown == 2

\* line 629: the entries a period needs for its rate to count
MinSamples == 10

\* the constant 0.02 of lines 639 and 641 as a float64
Threshold == F64Div(2, 100)

\* TrendBuckets with the two tests of the loop in the other order
TrendBuckets_OldFirst(s, period, t) ==
    LET es == s.entries
        old == {i \in 1..Len(es) : After(es[i].Timestamp, t - 2 * period)}
        recent == {i \in 1..Len(es) : After(es[i].Timestamp, t - period)} \ old
        errors(is) == Cardinality({i \in is : es[i].Status >= 400})
    IN [recentTotal |-> Cardinality(recent), recentErrors |-> errors(recent),
        oldTotal |-> Cardinality(old), oldErrors |-> errors(old)]

\* lines 606-626: the scan that puts each entry into the recent period, the
\* period before it, or neither; t is time.Now()
TrendBuckets(s, period, t) ==
    LET es == s.entries
        recentCutoff == t - period
        oldCutoff == t - 2 * period
        recent == {i \in 1..Len(es) : After(es[i].Timestamp, recentCutoff)}
        old == {i \in 1..Len(es) : After(es[i].Timestamp, oldCutoff)} \ recent
        errors(is) == Cardinality({i \in is : es[i].Status >= 400})
    IN [recentTotal |-> Cardinality(recent), recentErrors |-> errors(recent),
        oldTotal |-> Cardinality(old), oldErrors |-> errors(old)]

\* lines 633-644: the two rates, their difference and its class
TrendOf(b) ==
    LET recentRate == F64Div(b.recentErrors, b.recentTotal)
        oldRate == F64Div(b.oldErrors, b.oldTotal)
        diff == F64Sub(recentRate, oldRate)
    IN IF F64Greater(diff, Threshold) THEN [diff |-> diff, trend |-> TrendUp]
       ELSE IF F64Greater(F64Neg(Threshold), diff)
       THEN [diff |-> diff, trend |-> TrendDown]
       ELSE [diff |-> diff, trend |-> TrendStable]

\* GetTrendWithDiff asking only the recent period for enough entries
GetTrendWithDiff_RecentOnly(s, period, t) ==
    LET b == TrendBuckets(s, period, t)
    IN IF Len(s.entries) = 0 \/ b.recentTotal < MinSamples
       THEN [diff |-> F64Zero, trend |-> TrendStable]
       ELSE TrendOf(b)

\* lines 603-645
GetTrendWithDiff(s, period, t) ==
    LET b == TrendBuckets(s, period, t)
    IN IF Len(s.entries) = 0 THEN [diff |-> F64Zero, trend |-> TrendStable]
       ELSE IF b.recentTotal < MinSamples \/ b.oldTotal < MinSamples
       THEN [diff |-> F64Zero, trend |-> TrendStable]
       ELSE TrendOf(b)

\* lines 591-594
GetTrend(s, period, t) == GetTrendWithDiff(s, period, t).trend

----------------------------------------------------------------------------
(* The request rate, store.go:508-529 *)

\* GetCurrentRate counting from the head of the entries up to the first
\* entry that is not after the cutoff
GetCurrentRate_FromHead(s, rateWindow, t) ==
    LET es == s.entries
        stale == {i \in 1..Len(es) : ~After(es[i].Timestamp, t - rateWindow)}
        count == IF stale = {} THEN Len(es)
                 ELSE (CHOOSE i \in stale : \A j \in stale : i <= j) - 1
    IN IF Len(es) = 0 THEN F64Zero ELSE F64Div(count, rateWindow)

\* lines 508-529; rateWindow is a whole number of seconds, at least one, so
\* window.Seconds() is exact, and t is time.Now().  The scan goes back from
\* the tail and stops at the last entry that is not after the cutoff.
GetCurrentRate(s, rateWindow, t) ==
    LET es == s.entries
        stale == {i \in 1..Len(es) : ~After(es[i].Timestamp, t - rateWindow)}
        count == IF stale = {} THEN Len(es)
                 ELSE Len(es) - (CHOOSE i \in stale : \A j \in stale : j <= i)
    IN IF Len(es) = 0 THEN F64Zero ELSE F64Div(count, rateWindow)

----------------------------------------------------------------------------
(* The store used by one goroutine: every operation is one step *)

\* no call in progress
NoFrame == [e |-> <<>>, stmt |-> 0, k |-> 0, cutoff |-> 0, count |-> 0, op |-> "none",
            res |-> <<>>, args |-> <<>>, cmds |-> <<>>]

Init ==
    /\ entries = New.entries
    /\ TotalCount = New.TotalCount
    /\ StatusCounts = New.StatusCounts
    /\ HostCounts = New.HostCounts
    /\ IPCounts = New.IPCounts
    /\ serviceTimes = New.serviceTimes
    /\ connectTimes = New.connectTimes
    /\ hostToIPs = New.hostToIPs
    /\ ipToHosts = New.ipToHosts
    /\ hostToStatus = New.hostToStatus
    /\ ipToStatus = New.ipToStatus
    /\ hostToPaths = New.hostToPaths
    /\ ipToPaths = New.ipToPaths
    /\ window \in {0, Window}
    /\ now = MinNow
    /\ mu = [writer |-> "none", readers |-> 0]
    /\ pc = [producer |-> "idle", consumer |-> "idle"]
    /\ frame = NoFrame
    /\ committed = New

Add(e) ==
    /\ SetStore(AddEntry(Store, e))
    /\ UNCHANGED <<window, now, concVars>>

\* Add(nil) returns at once
AddNil ==
    /\ UNCHANGED vars

\* Prune without the return of line 156: a store that keeps everything is
\* pruned as one created with the window Window
Prune_AlwaysWindowed ==
    /\ SetStore(PruneStore(Store, Window, now))
    /\ UNCHANGED <<window, now, concVars>>

Prune ==
    /\ IF window = 0
       THEN UNCHANGED storeVars
       ELSE SetStore(PruneStore(Store, window, now))
    /\ UNCHANGED <<window, now, concVars>>

\* time passes
Tick ==
    /\ now < MaxNow
    /\ now' = now + 1
    /\ UNCHANGED <<storeVars, window, concVars>>

Next ==
    \/ \E e \in Entry : Add(e)
    \/ AddNil
    \/ Prune
    \/ Tick

Spec == Init /\ [][Next]_vars

\* The store created with a window.  Whatever a store that keeps everything
\* can hold, this one can hold too, when Prune is not called; with Prune it
\* also loses entries to the window.
InitWindowed ==
    /\ Init
    /\ window = Window

SpecWindowed == InitWindowed /\ [][Next]_vars

----------------------------------------------------------------------------
(* GetStats on a store that keeps everything and is far below the cap of    *)
(* 100000 entries: Add evicts nothing, and the store holds more latency     *)
(* samples than the scaled cap lets the stores above hold                   *)

\* the number of entries added to such a store
StatsLen == 5

\* the sample counts for which the percentile indexes are computed
IndexLen == 200

\* the log lines added: two with different latencies and a WebSocket upgrade
StatsEntry == {e \in Entry : e.Service \in {10, 20, 30}}

InitStats ==
    /\ Init
    /\ window = 0

\* Add while len(entries) stays below the cap: lines 148-151 evict nothing
AddBelowCap(e) ==
    /\ Len(entries) < StatsLen
    /\ SetStore(AddBody(Store, e))
    /\ frame' = NoFrame
    /\ UNCHANGED <<window, now, mu, pc, committed>>

\* a call of GetStats; frame.res is what it returned
GetStatsCall ==
    /\ frame' = [NoFrame EXCEPT !.op = "GetStats", !.res = GetStats(Store)]
    /\ UNCHANGED <<storeVars, window, now, mu, pc, committed>>

NextStats ==
    \/ \E e \in StatsEntry : AddBelowCap(e)
    \/ GetStatsCall

SpecStats == InitStats /\ [][NextStats]_vars

----------------------------------------------------------------------------
(* The path queries on a store that keeps everything and is fed lines with  *)
(* excluded paths, with paths that come close to one, and with others       *)

\* a log line with status 200 at time 0
PathLine(host, path, ip) == E(0, 200, 10, 1, host, path, ip)

\* a listed path, a path under a prefix, a path that extends a listed one,
\* a plain path and an empty one for one host and IP, and an excluded path
\* each for a line without a host and a line without an IP
PathEntry ==
    { PathLine("a.com", "/robots.txt",        "1.1.1.1"),
      PathLine("a.com", "/hirefire/test",     "1.1.1.1"),
      PathLine("a.com", "/robots.txt.bak",    "1.1.1.1"),
      PathLine("a.com", "/api/users",         "1.1.1.1"),
      PathLine("a.com", "",                   "1.1.1.1"),
      PathLine("",      "/system-status-abc", "1.1.1.1"),
      PathLine("a.com", "/ahoy/events",       "") }

InitPaths ==
    /\ Init
    /\ window = 0

NextPaths == \E e \in PathEntry : Add(e)

SpecPaths == InitPaths /\ [][NextPaths]_vars

----------------------------------------------------------------------------
(* The error rates on a store that keeps everything and is fed lines with   *)
(* the statuses at the two ends of the 4xx and 5xx classes.  The parser      *)
(* takes any run of digits as a status (parser.go:22 and 45), so 600 is one. *)

\* a log line at time 0 for the host, path and IP that carry the statuses
RateLine(status) == E(0, status, 10, 1, "a.com", "/x", "1.1.1.1")

\* the statuses around 400, 500 and 600, and one line of another host and
\* IP without a path
RateEntry ==
    { RateLine(399), RateLine(400), RateLine(499), RateLine(500),
      RateLine(599), RateLine(600),
      E(0, 499, 10, 1, "b.com", "", "2.2.2.2") }

InitRates ==
    /\ Init
    /\ window = 0

NextRates == \E e \in RateEntry : Add(e)

SpecRates == InitRates /\ [][NextRates]_vars

----------------------------------------------------------------------------
(* The trend on a store that keeps everything and is far below the cap of   *)
(* 100000 entries.  The log is fed in the order of its timestamps, the       *)
(* errors of one timestamp first, and holds enough lines to fill both       *)
(* periods.                                                                  *)

\* the period GetTrend is asked about, in seconds
TrendPeriod == 2

\* the most lines fed for the inside of one period
LargeBucket == 25

\* the most errors among them
TrendErrors == 3

\* a log line that is age seconds old when GetTrend is called
TrendLine(age, status) ==
    E(MinNow - age, status, 10, 1, "a.com", "/x", "1.1.1.1")

\* the ages inside the period before the recent one and inside the recent one
OldAge == 2 * TrendPeriod - 1
RecentAge == TrendPeriod - 1

\* the ages at the ends of the periods: before both, at the start of the
\* older, at the start of the recent, at the clock and ahead of the clock
EdgeAges == {2 * TrendPeriod + 1, 2 * TrendPeriod, TrendPeriod, 0, -1}

TrendEntry ==
    {TrendLine(age, status) : age \in {OldAge, RecentAge}, status \in {200, 404}}
        \cup {TrendLine(age, 500) : age \in EdgeAges}

\* the lines of the log so far that are age seconds old
Aged(es, age) == {i \in 1..Len(es) : es[i].Timestamp = MinNow - age}

\* the sizes the older period is left at when the log moves on
OldSizes == {0, MinSamples - 1, MinSamples, LargeBucket}

\* the log may go on with the line e
Feeds(es, e) ==
    LET age == MinNow - e.Timestamp
        same == Aged(es, age)
    IN /\ es # <<>> =>
            /\ es[Len(es)].Timestamp <= e.Timestamp
            /\ es[Len(es)].Timestamp = e.Timestamp
                  => (es[Len(es)].Status >= 400 \/ e.Status < 400)
       /\ age <= TrendPeriod => Cardinality(Aged(es, OldAge)) \in OldSizes
       /\ IF age \in EdgeAges
          THEN \A a \in EdgeAges : Aged(es, a) = {}
          ELSE /\ Cardinality(same) < LargeBucket
               /\ e.Status >= 400 =>
                    Cardinality({i \in same : es[i].Status >= 400}) < TrendErrors

\* Add of the next line of the log; len(entries) stays below the cap
AddTrend(e) ==
    /\ Feeds(entries, e)
    /\ SetStore(AddBody(Store, e))
    /\ UNCHANGED <<window, now, concVars>>

NextTrend == \E e \in TrendEntry : AddTrend(e)

SpecTrend == InitRates /\ [][NextTrend]_vars

----------------------------------------------------------------------------
(* The request rate on a store that keeps everything, fed lines of one host *)
(* in any order of their timestamps, while time passes                      *)

\* the longest window GetCurrentRate is asked about, in seconds
RateWindow == 2

CurrentEntry ==
    {E(ts, status, 10, 1, "a.com", "/x", "1.1.1.1") :
        ts \in 0..MaxTs, status \in {200, 404}}

NextCurrent ==
    \/ \E e \in CurrentEntry : Add(e)
    \/ Tick

SpecCurrent == InitRates /\ [][NextCurrent]_vars

----------------------------------------------------------------------------
(* Every query, with labels the store has seen and labels it has not, on    *)
(* the stores of SpecStats                                                   *)

\* the host, IP or path a query is asked about: none, seen ones, an unseen one
ReadLabels == {"", "a.com", "1.1.1.1", "/x", "z.com"}

\* the queries that take no label and those that take one
ReadOps ==
    [plain |-> {"GetStats", "GetAllPaths", "GetOtherCount", "GetErrorRates",
                "GetTrend", "GetCurrentRate", "GetUniqueCounts"},
     labelled |-> {"GetStatusCounts", "GetTopHosts", "GetTopIPs", "GetTopPaths",
                   "GetErrorRatesForHost", "GetErrorRatesForIP",
                   "GetErrorRatesForPath"}]

\* what the query can return on the store s at the time t
ReadResults(op, label, s, t) ==
    CASE op = "GetStats" -> {GetStats(s)}
      [] op = "GetAllPaths" -> GetAllPaths(s, defaultTopN)
      [] op = "GetOtherCount" ->
            {GetOtherCount(s.HostCounts, top) :
                top \in GetTopHosts(s, defaultTopN, "")}
      [] op = "GetErrorRates" -> {GetErrorRates(s)}
      [] op = "GetTrend" -> {GetTrend(s, Window, t)}
      [] op = "GetCurrentRate" -> {GetCurrentRate(s, Window, t)}
      [] op = "GetUniqueCounts" -> {GetUniqueCounts(s)}
      [] op = "GetStatusCounts" -> {GetStatusCounts(s, label, "")}
      [] op = "GetTopHosts" -> GetTopHosts(s, defaultTopN, label)
      [] op = "GetTopIPs" -> GetTopIPs(s, defaultTopN, label)
      [] op = "GetTopPaths" -> GetTopPaths(s, defaultTopN, label, "")
      [] op = "GetErrorRatesForHost" -> {GetErrorRatesForHost(s, label)}
      [] op = "GetErrorRatesForIP" -> {GetErrorRatesForIP(s, label)}
      [] op = "GetErrorRatesForPath" -> {GetErrorRatesForPath(s, label)}

\* AfterQuery with a GetStats that sorts the latency samples where they are
AfterQuery_SortInPlace(op, s) ==
    IF op = "GetStats"
    THEN [s EXCEPT !.serviceTimes = SortInts(@), !.connectTimes = SortInts(@)]
    ELSE s

\* The store as the query leaves it.  GetStats sorts a copy of serviceTimes
\* (lines 259-262) and ranges over connectTimes; the index of a map with a
\* key it does not hold (lines 311-327) adds no key; topN and the others
\* fill slices of their own.  No query assigns to a field of the store.
AfterQuery(op, s) == s

\* a call of the query; frame.res is what it returned
ReadCall(op, label) ==
    /\ SetStore(AfterQuery(op, Store))
    /\ \E value \in ReadResults(op, label, Store, now) :
          frame' = [NoFrame EXCEPT !.op = op,
                      !.res = [label |-> label, value |-> value]]
    /\ UNCHANGED <<window, now, mu, pc, committed>>

NextReads ==
    \/ \E e \in StatsEntry : AddBelowCap(e)
    \/ \E op \in ReadOps.plain : ReadCall(op, "")
    \/ \E op \in ReadOps.labelled, label \in ReadLabels : ReadCall(op, label)

SpecReads == InitStats /\ [][NextReads]_vars

----------------------------------------------------------------------------
(* The store shared by two goroutines: a producer that calls Add and a      *)
(* consumer that calls Prune and the queries.  Every statement that reads   *)
(* or writes a field of the store is a step of its own; s.mu decides which  *)
(* steps can interleave.                                                    *)

\* the log lines of the producer: both timestamps with both kinds of status
ConcEntry == {e \in Entry : e.Host = "a.com"}

Queries == {"GetStats", "GetUniqueCounts"}

\* sync.RWMutex: Lock waits for the writer and for every reader to leave,
\* RLock waits for the writer to leave
\* a Lock that does not wait for the readers
CanLock_IgnoreReaders(m) == m.writer = "none"

CanLock(m) == m.writer = "none" /\ m.readers = 0

CanRLock(m) == m.writer = "none"

\* Add, line 88: s.mu.Lock()
AddCall(e) ==
    /\ pc.producer = "idle"
    /\ pc' = [pc EXCEPT !.producer = "lock"]
    /\ frame' = [frame EXCEPT !.e = e]
    /\ UNCHANGED <<storeVars, window, now, mu, committed>>

AddLock ==
    /\ pc.producer = "lock"
    /\ CanLock(mu)
    /\ mu' = [mu EXCEPT !.writer = "producer"]
    /\ pc' = [pc EXCEPT !.producer = "body"]
    /\ frame' = [frame EXCEPT !.stmt = 1]
    /\ UNCHANGED <<storeVars, window, now, committed>>

\* Add, lines 101-146: the next statement
AddStep ==
    /\ pc.producer = "body"
    /\ SetStore(AddStmt(Store, frame.e, frame.stmt))
    /\ IF frame.stmt < AddStmts
       THEN /\ frame' = [frame EXCEPT !.stmt = @ + 1]
            /\ pc' = pc
       ELSE /\ frame' = [frame EXCEPT !.stmt = 0]
            /\ pc' = [pc EXCEPT !.producer = "cap"]
    /\ UNCHANGED <<window, now, mu, committed>>

\* AddCap with a pruneOldest that takes the lock Add holds
AddCap_Relock ==
    /\ pc.producer = "cap"
    /\ CanLock(mu)
    /\ SetStore(CapEvict(Store))
    /\ pc' = [pc EXCEPT !.producer = "unlock"]
    /\ UNCHANGED <<window, now, mu, frame, committed>>

\* Add, lines 148-151
AddCap ==
    /\ pc.producer = "cap"
    /\ SetStore(CapEvict(Store))
    /\ pc' = [pc EXCEPT !.producer = "unlock"]
    /\ UNCHANGED <<window, now, mu, frame, committed>>

\* Add, line 89: the deferred s.mu.Unlock()
AddUnlock ==
    /\ pc.producer = "unlock"
    /\ mu' = [mu EXCEPT !.writer = "none"]
    /\ committed' = Store
    /\ pc' = [pc EXCEPT !.producer = "idle"]
    /\ frame' = [frame EXCEPT !.e = <<>>]
    /\ UNCHANGED <<storeVars, window, now>>

\* Prune, lines 156-158: no window, no lock taken
PruneNoWindow ==
    /\ pc.consumer = "idle"
    /\ window = 0
    /\ UNCHANGED vars

\* Prune, line 160: s.mu.Lock()
PruneCall ==
    /\ pc.consumer = "idle"
    /\ window # 0
    /\ pc' = [pc EXCEPT !.consumer = "Prune_lock"]
    /\ UNCHANGED <<storeVars, window, now, mu, frame, committed>>

PruneLock ==
    /\ pc.consumer = "Prune_lock"
    /\ CanLock(mu)
    /\ mu' = [mu EXCEPT !.writer = "consumer"]
    /\ pc' = [pc EXCEPT !.consumer = "Prune_scan"]
    /\ UNCHANGED <<storeVars, window, now, frame, committed>>

\* Prune, lines 163-174, and the guard of pruneOldest, lines 178-180
PruneScan ==
    /\ pc.consumer = "Prune_scan"
    /\ LET count == PruneCount(entries, now - window)
       IN /\ frame' = [frame EXCEPT !.cutoff = now - window, !.count = count,
                                    !.k = 1]
          /\ pc' = [pc EXCEPT !.consumer =
                       IF count > 0 /\ count <= Len(entries)
                       THEN "Prune_loop" ELSE "Prune_unlock"]
    /\ UNCHANGED <<storeVars, window, now, mu, committed>>

\* pruneOldest, lines 186-229: one iteration of the loop
PruneStep ==
    /\ pc.consumer = "Prune_loop"
    /\ frame.k <= frame.count
    /\ SetStore(PruneIter(Store, entries[frame.k]))
    /\ frame' = [frame EXCEPT !.k = @ + 1]
    /\ UNCHANGED <<window, now, mu, pc, committed>>

\* pruneOldest, lines 231-233
PruneSliceStep ==
    /\ pc.consumer = "Prune_loop"
    /\ frame.k > frame.count
    /\ SetStore(PruneSlice(Store, frame.count, TimingCount(entries, frame.count)))
    /\ pc' = [pc EXCEPT !.consumer = "Prune_unlock"]
    /\ UNCHANGED <<window, now, mu, frame, committed>>

\* Prune, line 161: the deferred s.mu.Unlock()
PruneUnlock ==
    /\ pc.consumer = "Prune_unlock"
    /\ mu' = [mu EXCEPT !.writer = "none"]
    /\ committed' = Store
    /\ pc' = [pc EXCEPT !.consumer = "idle"]
    /\ frame' = [frame EXCEPT !.k = 0, !.count = 0, !.cutoff = 0]
    /\ UNCHANGED <<storeVars, window, now>>

\* the reads of a query, in the order of its code:
\*   GetStats         1: TotalCount   2: serviceTimes   3: connectTimes
\*   GetUniqueCounts  1: HostCounts   2: IPCounts       3: hostToPaths
QueryReads == 3

QueryRead(op, k, s, res) ==
    IF op = "GetStats"
    THEN CASE k = 1 -> StatsOfTotal(s.TotalCount)
           [] k = 2 -> IF Len(s.serviceTimes) = 0 THEN res
                       ELSE WithService(res, s.serviceTimes)
           [] k = 3 -> WithConnect(res, s.connectTimes)
    ELSE CASE k = 1 -> [hosts |-> Cardinality(Positive(s.HostCounts)),
                        ips |-> 0, paths |-> 0]
           [] k = 2 -> [res EXCEPT !.ips = Cardinality(Positive(s.IPCounts))]
           [] k = 3 -> [res EXCEPT !.paths =
                           Cardinality(UNION {Positive(s.hostToPaths[h]) :
                                                 h \in DOMAIN s.hostToPaths})]

\* GetStats returns at line 256 when there is no latency sample
QueryReturns(op, k, s) ==
    \/ k = QueryReads
    \/ op = "GetStats" /\ k = 2 /\ Len(s.serviceTimes) = 0

\* what the query returns when it runs on the store s alone
QueryResult(op, s) ==
    IF op = "GetStats" THEN GetStats(s) ELSE GetUniqueCounts(s)

\* lines 250 and 479: s.mu.RLock()
QueryCall(op) ==
    /\ pc.consumer = "idle"
    /\ pc' = [pc EXCEPT !.consumer = "Query_rlock"]
    /\ frame' = [frame EXCEPT !.op = op]
    /\ UNCHANGED <<storeVars, window, now, mu, committed>>

QueryRLock ==
    /\ pc.consumer = "Query_rlock"
    /\ CanRLock(mu)
    /\ mu' = [mu EXCEPT !.readers = @ + 1]
    /\ pc' = [pc EXCEPT !.consumer = "Query_read"]
    /\ frame' = [frame EXCEPT !.k = 1]
    /\ UNCHANGED <<storeVars, window, now, committed>>

QueryStep ==
    /\ pc.consumer = "Query_read"
    /\ frame' = [frame EXCEPT
                   !.res = QueryRead(frame.op, frame.k, Store, frame.res),
                   !.k = @ + 1]
    /\ pc' = [pc EXCEPT !.consumer =
                 IF QueryReturns(frame.op, frame.k, Store)
                 THEN "Query_return" ELSE "Query_read"]
    /\ UNCHANGED <<storeVars, window, now, mu, committed>>

\* lines 251 and 480: the deferred s.mu.RUnlock(); the caller has the result
QueryRUnlock ==
    /\ pc.consumer = "Query_return"
    /\ mu' = [mu EXCEPT !.readers = @ - 1]
    /\ pc' = [pc EXCEPT !.consumer = "idle"]
    /\ frame' = [frame EXCEPT !.op = "none", !.res = <<>>, !.k = 0]
    /\ UNCHANGED <<storeVars, window, now, committed>>

NextConc ==
    \/ \E e \in ConcEntry : AddCall(e)
    \/ AddLock
    \/ AddStep
    \/ AddCap
    \/ AddUnlock
    \/ PruneNoWindow
    \/ PruneCall
    \/ PruneLock
    \/ PruneScan
    \/ PruneStep
    \/ PruneSliceStep
    \/ PruneUnlock
    \/ \E op \in Queries : QueryCall(op)
    \/ QueryRLock
    \/ QueryStep
    \/ QueryRUnlock
    \/ Tick

SpecConc == Init /\ [][NextConc]_vars

----------------------------------------------------------------------------
(* The two goroutines with the queries that call a helper while they hold   *)
(* the lock: GetTopHosts calls topN, GetErrorRatesForHost calls              *)
(* calculateErrorRates, GetTrend calls GetTrendWithDiff, which takes the    *)
(* lock, and Add calls pruneOldest.  None of the helpers locks.             *)

HelperQueries == {"GetTopHosts", "GetErrorRatesForHost", "GetTrend"}

\* the log lines of the producer: an old one and a recent one
LiveEntry == {e \in ConcEntry : e.Status = 200}

\* what the query can return on the store s at the time t
HelperResults(op, s, t) ==
    CASE op = "GetTopHosts" -> GetTopHosts(s, defaultTopN, "")
      [] op = "GetErrorRatesForHost" -> {GetErrorRatesForHost(s, "a.com")}
      [] op = "GetTrend" -> {[trend |-> GetTrend(s, Window, t)]}

\* the body of the query, between its RLock and its RUnlock: the helper runs
\* under the lock of its caller
HelperQueryStep ==
    /\ pc.consumer = "Query_read"
    /\ \E res \in HelperResults(frame.op, Store, now) :
          frame' = [frame EXCEPT !.res = res]
    /\ pc' = [pc EXCEPT !.consumer = "Query_return"]
    /\ UNCHANGED <<storeVars, window, now, mu, committed>>

\* the steps of the producer and of the consumer inside a call, after the
\* lock is taken
ProducerStep == AddStep \/ AddCap \/ AddUnlock

ConsumerStep ==
    \/ PruneScan
    \/ PruneStep
    \/ PruneSliceStep
    \/ PruneUnlock
    \/ HelperQueryStep
    \/ QueryRUnlock

NextLive ==
    \/ \E e \in LiveEntry : AddCall(e)
    \/ AddLock
    \/ ProducerStep
    \/ PruneNoWindow
    \/ PruneCall
    \/ PruneLock
    \/ \E op \in HelperQueries : QueryCall(op)
    \/ QueryRLock
    \/ ConsumerStep
    \/ Tick

\* The scheduler lets a goroutine that can take a step take one.  A Lock
\* that waits keeps new readers out until it has the lock, and an Unlock
\* lets the readers that wait in before the next writer: whoever waits for
\* s.mu while it is free again and again gets it.
SpecLive ==
    /\ Init
    /\ [][NextLive]_vars
    /\ WF_vars(ProducerStep)
    /\ WF_vars(ConsumerStep)
    /\ SF_vars(AddLock)
    /\ SF_vars(PruneLock)
    /\ SF_vars(QueryRLock)

----------------------------------------------------------------------------
(* The UI, part_005 and part_006 with refreshData of ui_test.go:853-916.    *)
(* Bubble Tea hands the messages to Update one at a time, on one goroutine: *)
(* readStdin (main.go:118-131) only sends EntryMsg and StreamEndedMsg, and  *)
(* Add, Prune and the queries are all called from Update.  frame.res is the *)
(* Model, frame.op the command the last Update returned, frame.args the     *)
(* maps of the store it read as arguments, frame.cmds the lookups still     *)
(* running and frame.k the number of lines readStdin has sent.              *)

\* the lookups that may run at once
MaxLookups == 1

\* ui_test.go:849-851, in seconds
currentRateWindow == 10
trendWindow == 60
trendWindow5m == 300

\* part_005:14-17
SectionHosts == 0
SectionIPs == 1

\* the keys of handleKey, and one it does not know
Keys ==
    {"q", "ctrl+c", "esc", "enter", "?", "w", "i", "tab", "l", "shift+tab",
     "h", "j", "down", "k", "up", "g", "G", "x"}

\* the log lines on stdin: two hosts, one of them with no address
Stdin ==
    << E(0,     200, 10, 1, "a.com", "/x", "1.1.1.1"),
       E(MaxTs, 500, 20, 2, "b.com", "/y", "") >>

\* the terminal sizes of a WindowSizeMsg
Sizes == {[Width |-> 80, Height |-> 24]}

\* what a lookup comes back with: its output, or an error
LookupResults ==
    {[Content |-> "OrgName: Example", Err |-> "nil"],
     [Content |-> "", Err |-> "exit status 1"]}

\* part_005:61-69 and ui_test.go:801-808: the zero value of every field but
\* section; a nil slice and a nil map read as empty ones
NewModel ==
    [width |-> 0, height |-> 0, section |-> SectionHosts,
     hostCursor |-> 0, ipCursor |-> 0,
     filter |-> [Host |-> "", IP |-> ""],
     showHelp |-> FALSE, streamEnded |-> FALSE, lastEntryTime |-> 0,
     modal |-> [Visible |-> FALSE, Title |-> "", Content |-> "",
                Loading |-> FALSE],
     stats |-> StatsOfTotal(0), statusCounts |-> <<>>,
     topHosts |-> <<>>, topIPs |-> <<>>, topPaths |-> <<>>,
     otherHosts |-> 0, otherIPs |-> 0,
     rate4xx |-> F64Zero, rate5xx |-> F64Zero,
     uniqueHosts |-> 0, uniqueIPs |-> 0, uniquePaths |-> 0,
     currentRate |-> F64Zero, trend |-> TrendStable, trend5m |-> TrendStable,
     hostErrRates |-> EmptyMap, ipErrRates |-> EmptyMap,
     pathErrRates |-> EmptyMap]

\* the Model the program runs with: NewModel until Update returns one
UIModel == IF frame.res = <<>> THEN NewModel ELSE frame.res

\* ui_test.go:946-951
max(a, b) == IF a > b THEN a ELSE b

\* updateTrendWithHysteresis comparing diff, not its absolute value, with 0.01
updateTrendWithHysteresis_Signed(current, s, period, t) ==
    LET hysteresis(r) ==
            IF r.trend # TrendStable THEN r.trend
            ELSE IF current = TrendStable THEN TrendStable
            ELSE IF F64Greater(F64Div(1, 100), r.diff) THEN TrendStable
            ELSE current
    IN hysteresis(GetTrendWithDiff(s, period, t))

\* ui_test.go:919-944; absDiff < 0.01 compares with the float64 nearest 0.01
updateTrendWithHysteresis(current, s, period, t) ==
    LET hysteresis(r) ==
            LET absDiff == IF r.diff # F64Zero /\ r.diff.sign = 1
                           THEN F64Neg(r.diff) ELSE r.diff
            IN IF r.trend # TrendStable THEN r.trend
               ELSE IF current = TrendStable THEN TrendStable
               ELSE IF F64Greater(F64Div(1, 100), absDiff) THEN TrendStable
               ELSE current
    IN hysteresis(GetTrendWithDiff(s, period, t))

\* clampCursors leaving the cursors where they are
clampCursors_Keep(m) == m

\* ui_test.go:907-913: the cursors are brought back into the tables
clampCursors(m) ==
    LET clamp(cursor, top) ==
            IF cursor >= Len(top) THEN max(0, Len(top) - 1) ELSE cursor
    IN [m EXCEPT !.hostCursor = clamp(@, m.topHosts),
                 !.ipCursor = clamp(@, m.topIPs)]

\* ui_test.go:853-916: what refreshData can leave in the Model and the
\* store, and the maps of the store it reads as arguments.  Lines 872 and
\* 879 hand s.HostCounts and s.IPCounts themselves to GetOtherCount: a Go
\* map is a reference, "HostCounts" and "IPCounts" stand for the two.
refreshData(m, s, t) ==
    LET p == IF window = 0 THEN s ELSE PruneStore(s, window, t)
        unfiltered == m.filter.Host = "" /\ m.filter.IP = ""
        rates == GetErrorRates(p)
        unique == GetUniqueCounts(p)
        labels(top) == {top[i].Label : i \in 1..Len(top)}
    IN {[store |-> p,
         args |-> (IF m.filter.IP = "" THEN <<"HostCounts">> ELSE <<>>)
                  \o (IF m.filter.Host = "" THEN <<"IPCounts">> ELSE <<>>),
         m |-> clampCursors([m EXCEPT
            !.stats = GetStats(p),
            !.statusCounts = GetStatusCounts(p, m.filter.Host, m.filter.IP),
            !.topHosts = hosts,
            !.topIPs = ips,
            !.topPaths = paths,
            !.otherHosts = IF m.filter.IP = ""
                           THEN GetOtherCount(p.HostCounts, hosts) ELSE 0,
            !.otherIPs = IF m.filter.Host = ""
                         THEN GetOtherCount(p.IPCounts, ips) ELSE 0,
            !.rate4xx = rates.Rate4xx,
            !.rate5xx = rates.Rate5xx,
            !.uniqueHosts = unique.hosts,
            !.uniqueIPs = unique.ips,
            !.uniquePaths = unique.paths,
            !.currentRate = GetCurrentRate(p, currentRateWindow, t),
            !.trend = updateTrendWithHysteresis(m.trend, p, trendWindow, t),
            !.trend5m = updateTrendWithHysteresis(m.trend5m, p,
                                                  trendWindow5m, t),
            !.hostErrRates = [h \in labels(hosts) |->
                                 GetErrorRatesForHost(p, h)],
            !.ipErrRates = [ip \in labels(ips) |-> GetErrorRatesForIP(p, ip)],
            !.pathErrRates = [path \in labels(paths) |->
                                 GetErrorRatesForPath(p, path)]])] :
          hosts \in GetTopHosts(p, defaultTopN, m.filter.IP),
          ips \in GetTopIPs(p, defaultTopN, m.filter.Host),
          paths \in (IF unfiltered THEN GetAllPaths(p, defaultTopN)
                     ELSE GetTopPaths(p, defaultTopN, m.filter.Host,
                                      m.filter.IP))}

\* the map a reference stands for, hosts and ips being s.HostCounts and
\* s.IPCounts
Deref(ref, hosts, ips) == IF ref = "HostCounts" THEN hosts ELSE ips

\* return m, cmd
Returns(m, cmd) == [m |-> m, cmd |-> cmd, refresh |-> FALSE]

\* m.refreshData(); return m, nil: refreshData is the last statement of the
\* branch, and Update runs it on m
Refreshes(m) == [m |-> m, cmd |-> "nil", refresh |-> TRUE]

\* part_006:163-182
moveCursor(m, delta) ==
    LET clamp(cursor, top) ==
            IF cursor + delta < 0 THEN 0
            ELSE IF cursor + delta >= Len(top) THEN max(0, Len(top) - 1)
            ELSE cursor + delta
    IN IF m.section = SectionHosts
       THEN [m EXCEPT !.hostCursor = clamp(@, m.topHosts)]
       ELSE [m EXCEPT !.ipCursor = clamp(@, m.topIPs)]

\* part_006:184-191
moveCursorTo(m, pos) ==
    IF m.section = SectionHosts THEN [m EXCEPT !.hostCursor = pos]
    ELSE [m EXCEPT !.ipCursor = pos]

\* part_006:193-200
moveCursorToEnd(m) ==
    IF m.section = SectionHosts
    THEN [m EXCEPT !.hostCursor = max(0, Len(m.topHosts) - 1)]
    ELSE [m EXCEPT !.ipCursor = max(0, Len(m.topIPs) - 1)]

\* applyFilter setting its own field of the filter and leaving the other
applyFilter_KeepOther(m) ==
    IF m.section = SectionHosts /\ m.hostCursor < Len(m.topHosts)
    THEN Refreshes([m EXCEPT !.filter.Host =
                                 m.topHosts[m.hostCursor + 1].Label])
    ELSE IF m.section = SectionIPs /\ m.ipCursor < Len(m.topIPs)
    THEN Refreshes([m EXCEPT !.filter.IP = m.topIPs[m.ipCursor + 1].Label])
    ELSE Returns(m, "nil")

\* part_006:202-217
applyFilter(m) ==
    IF m.section = SectionHosts /\ m.hostCursor < Len(m.topHosts)
    THEN Refreshes([m EXCEPT !.filter =
                       [Host |-> m.topHosts[m.hostCursor + 1].Label,
                        IP |-> ""]])
    ELSE IF m.section = SectionIPs /\ m.ipCursor < Len(m.topIPs)
    THEN Refreshes([m EXCEPT !.filter =
                       [Host |-> "",
                        IP |-> m.topIPs[m.ipCursor + 1].Label]])
    ELSE Returns(m, "nil")

\* part_006:101-126: the w and the i key; name is "whois" or "ipinfo"
lookup(m, name, cmd) ==
    LET ip == m.topIPs[m.ipCursor + 1].Label
    IN IF /\ m.section = SectionIPs
          /\ m.ipCursor < Len(m.topIPs)
          /\ ip # "" /\ ip # "(unknown)"
       THEN Returns([m EXCEPT !.modal = [Visible |-> TRUE,
                                         Title |-> name \o " " \o ip,
                                         Loading |-> TRUE,
                                         Content |-> "Loading..."]], cmd)
       ELSE Returns(m, "nil")

\* handleKey with q and Ctrl+C looked at before the modal and the help
handleKey_QuitFirst(m, key) ==
    IF key \in {"q", "ctrl+c"} THEN Returns(m, "tea.Quit")
    ELSE IF m.modal.Visible
    THEN IF key \in {"esc", "enter"}
         THEN Returns([m EXCEPT !.modal.Visible = FALSE,
                                !.modal.Content = ""], "nil")
         ELSE Returns(m, "nil")
    ELSE IF key = "?" THEN Returns([m EXCEPT !.showHelp = ~@], "nil")
    ELSE IF m.showHelp THEN Returns([m EXCEPT !.showHelp = FALSE], "nil")
    ELSE CASE key = "esc" ->
                IF m.filter.Host # "" \/ m.filter.IP # ""
                THEN Refreshes([m EXCEPT !.filter = [Host |-> "", IP |-> ""]])
                ELSE Returns(m, "tea.Quit")
           [] key = "w" -> lookup(m, "whois", "runWhois")
           [] key = "i" -> lookup(m, "ipinfo", "runIpinfo")
           [] key \in {"tab", "l"} ->
                Returns([m EXCEPT !.section = (@ + 1) % 2], "nil")
           [] key \in {"shift+tab", "h"} ->
                Returns([m EXCEPT !.section = IF @ = 0 THEN 1 ELSE @ - 1],
                        "nil")
           [] key \in {"j", "down"} -> Returns(moveCursor(m, 1), "nil")
           [] key \in {"k", "up"} -> Returns(moveCursor(m, -1), "nil")
           [] key = "g" -> Returns(moveCursorTo(m, 0), "nil")
           [] key = "G" -> Returns(moveCursorToEnd(m), "nil")
           [] key = "enter" -> applyFilter(m)
           [] OTHER -> Returns(m, "nil")

\* part_006:62-162: the Model and the command handleKey returns, and
\* whether it ends with refreshData
handleKey(m, key) ==
    IF m.modal.Visible
    THEN IF key \in {"esc", "enter", "q"}
         THEN Returns([m EXCEPT !.modal.Visible = FALSE,
                                !.modal.Content = ""], "nil")
         ELSE Returns(m, "nil")
    ELSE IF key = "?" THEN Returns([m EXCEPT !.showHelp = ~@], "nil")
    ELSE IF m.showHelp THEN Returns([m EXCEPT !.showHelp = FALSE], "nil")
    ELSE CASE key \in {"q", "ctrl+c"} -> Returns(m, "tea.Quit")
           [] key = "esc" ->
                IF m.filter.Host # "" \/ m.filter.IP # ""
                THEN Refreshes([m EXCEPT !.filter = [Host |-> "", IP |-> ""]])
                ELSE Returns(m, "tea.Quit")
           [] key = "w" -> lookup(m, "whois", "runWhois")
           [] key = "i" -> lookup(m, "ipinfo", "runIpinfo")
           [] key \in {"tab", "l"} ->
                Returns([m EXCEPT !.section = (@ + 1) % 2], "nil")
           [] key \in {"shift+tab", "h"} ->
                Returns([m EXCEPT !.section = IF @ = 0 THEN 1 ELSE @ - 1],
                        "nil")
           [] key \in {"j", "down"} -> Returns(moveCursor(m, 1), "nil")
           [] key \in {"k", "up"} -> Returns(moveCursor(m, -1), "nil")
           [] key = "g" -> Returns(moveCursorTo(m, 0), "nil")
           [] key = "G" -> Returns(moveCursorToEnd(m), "nil")
           [] key = "enter" -> applyFilter(m)
           [] OTHER -> Returns(m, "nil")

\* the program runs until an Update returns tea.Quit
Running == frame.op # "tea.Quit"

\* Update returns the Model m and the command cmd, with the store as it is
Return(m, cmd) ==
    /\ frame' = [frame EXCEPT !.op = cmd, !.res = m, !.args = <<>>]
    /\ UNCHANGED <<storeVars, window, now, mu, pc, committed>>

\* Update runs m.refreshData() and returns the Model and the command cmd
RefreshAndReturn(m, cmd) ==
    /\ \E r \in refreshData(m, Store, now) :
          /\ SetStore(r.store)
          /\ frame' = [frame EXCEPT !.op = cmd, !.res = r.m, !.args = r.args]
    /\ UNCHANGED <<window, now, mu, pc, committed>>

\* part_006:17-18: a key is pressed; a lookup is started while fewer than
\* MaxLookups are running
KeyMsg(key) ==
    /\ Running
    /\ \E h \in {handleKey(UIModel, key)} :
          IF h.cmd \in {"runWhois", "runIpinfo"}
          THEN /\ Len(frame.cmds) < MaxLookups
               /\ frame' = [frame EXCEPT !.op = h.cmd, !.res = h.m,
                                         !.args = <<>>,
                                         !.cmds = Append(@, h.cmd)]
               /\ UNCHANGED <<storeVars, window, now, mu, pc, committed>>
          ELSE IF h.refresh THEN RefreshAndReturn(h.m, h.cmd)
          ELSE Return(h.m, h.cmd)

\* part_006:20-23: the terminal is resized
WindowSizeMsg(size) ==
    /\ Running
    /\ Return([UIModel EXCEPT !.width = size.Width, !.height = size.Height],
              "nil")

\* part_006:25-28: readStdin has parsed the next line of stdin
EntryMsg ==
    /\ Running
    /\ frame.k < Len(Stdin)
    /\ SetStore(AddEntry(Store, Stdin[frame.k + 1]))
    /\ frame' = [frame EXCEPT !.op = "nil", !.args = <<>>, !.k = @ + 1,
                              !.res = [UIModel EXCEPT !.lastEntryTime = now]]
    /\ UNCHANGED <<window, now, mu, pc, committed>>

\* part_006:30-32: the refresh timer fires
TickMsg ==
    /\ Running
    /\ RefreshAndReturn(UIModel, "tickCmd")

\* part_006:34-37: readStdin has sent every line and stdin is at its end
StreamEndedMsg ==
    /\ Running
    /\ frame.k = Len(Stdin)
    /\ ~UIModel.streamEnded
    /\ RefreshAndReturn([UIModel EXCEPT !.streamEnded = TRUE], "nil")

\* part_006:39-55: a lookup is over, WhoisResultMsg or IpinfoResultMsg
LookupResultMsg(i, result) ==
    /\ Running
    /\ i \in 1..Len(frame.cmds)
    /\ frame' = [frame EXCEPT
                   !.op = "nil", !.args = <<>>,
                   !.cmds = SubSeq(@, 1, i - 1) \o SubSeq(@, i + 1, Len(@)),
                   !.res = [UIModel EXCEPT
                              !.modal.Loading = FALSE,
                              !.modal.Content =
                                  IF result.Err # "nil"
                                  THEN "Error: " \o result.Err
                                  ELSE result.Content]]
    /\ UNCHANGED <<storeVars, window, now, mu, pc, committed>>

NextUI ==
    \/ \E key \in Keys : KeyMsg(key)
    \/ \E size \in Sizes : WindowSizeMsg(size)
    \/ EntryMsg
    \/ TickMsg
    \/ StreamEndedMsg
    \/ \E i \in 1..MaxLookups, result \in LookupResults :
          LookupResultMsg(i, result)
    \/ Tick

SpecUI == InitWindowed /\ [][NextUI]_vars

----------------------------------------------------------------------------
(* The displayed trend over successive refreshes, ui_test.go:889-890, on    *)
(* the log of the trend fixture.  trendWindow is scaled to TrendPeriod as   *)
(* the fixture is; frame.res holds m.trend and, as raw, the diff and the    *)
(* trend GetTrendWithDiff gave the last refresh.                            *)

\* m.trend before the first refresh, ui_test.go:801-808
DisplayedTrend == IF frame.res = <<>> THEN TrendStable ELSE frame.res.trend

\* line 889: m.trend = updateTrendWithHysteresis(m.trend, m.store, trendWindow)
RefreshTrend ==
    /\ frame' = [frame EXCEPT
                   !.op = "refreshData",
                   !.res = [trend |-> updateTrendWithHysteresis(
                                          DisplayedTrend, Store, TrendPeriod, now),
                            raw |-> GetTrendWithDiff(Store, TrendPeriod, now)]]
    /\ UNCHANGED <<storeVars, window, now, mu, pc, committed>>

NextHysteresis ==
    \/ \E e \in TrendEntry : AddTrend(e)
    \/ RefreshTrend

SpecHysteresis == InitRates /\ [][NextHysteresis]_vars

----------------------------------------------------------------------------
(* The cursors over tables of several rows.  The store is left out: what    *)
(* GetTopHosts and GetTopIPs return to a refresh is any table of up to      *)
(* MaxRows rows, so the tables grow and shrink between refreshes as they do *)
(* when entries arrive, when Prune evicts and when the filter changes.      *)

\* the most rows of a table
MaxRows == 2

\* the tables GetTopHosts can return
HostTables ==
    LET rows == <<CountItem("a.com", 3), CountItem("b.com", 2),
                  CountItem("c.com", 1)>>
    IN {SubSeq(rows, 1, n) : n \in 0..MaxRows}

\* the tables GetTopIPs can return
IPTables ==
    LET rows == <<CountItem("1.1.1.1", 3), CountItem("(unknown)", 2),
                  CountItem("2.2.2.2", 1)>>
    IN {SubSeq(rows, 1, n) : n \in 0..MaxRows}

\* ui_test.go:860-861, 907-913: refreshData storing the two tables and
\* clamping the cursors
refreshTables(m) ==
    {clampCursors([m EXCEPT !.topHosts = hosts, !.topIPs = ips]) :
        hosts \in HostTables, ips \in IPTables}

\* part_006:17-18: a key is pressed
CursorKeyMsg(key) ==
    /\ Running
    /\ \E h \in {handleKey(UIModel, key)} :
          IF h.refresh
          THEN \E m \in refreshTables(h.m) : Return(m, h.cmd)
          ELSE Return(h.m, h.cmd)

\* part_006:30-32: the refresh timer fires
CursorTickMsg ==
    /\ Running
    /\ \E m \in refreshTables(UIModel) : Return(m, "tickCmd")

NextCursor ==
    \/ \E key \in Keys : CursorKeyMsg(key)
    \/ CursorTickMsg

SpecCursor == InitWindowed /\ [][NextCursor]_vars

----------------------------------------------------------------------------
(* What the tables are meant to hold: counts over the stored entries *)

\* the number of entries of es that satisfy P
CountIn(es, P(_)) == Cardinality({i \in 1..Len(es) : P(es[i])})

\* the number of stored entries that satisfy P
CountEntries(P(_)) == CountIn(entries, P)

\* the keys of the inner maps of a nested map
InnerKeys(m) == UNION {DOMAIN m[a] : a \in DOMAIN m}

\* every label that can name a cell of the store s: those of the log lines,
\* normalized, and whatever key a table holds (a raw empty key included)
StatusKeys(s) == {e.Status : e \in Entry} \cup DOMAIN s.StatusCounts
                  \cup InnerKeys(s.hostToStatus) \cup InnerKeys(s.ipToStatus)

HostKeys(s) == {Normalize(e.Host) : e \in Entry} \cup DOMAIN s.HostCounts
                \cup DOMAIN s.hostToIPs \cup DOMAIN s.hostToStatus
                \cup DOMAIN s.hostToPaths \cup InnerKeys(s.ipToHosts)

IPKeys(s) == {Normalize(e.IP) : e \in Entry} \cup DOMAIN s.IPCounts
              \cup DOMAIN s.ipToHosts \cup DOMAIN s.ipToStatus
              \cup DOMAIN s.ipToPaths \cup InnerKeys(s.hostToIPs)

PathKeys(s) == {Normalize(e.Path) : e \in Entry}
                \cup InnerKeys(s.hostToPaths) \cup InnerKeys(s.ipToPaths)

RECURSIVE SumOver(_, _)
SumOver(m, keys) ==
    IF keys = {} THEN 0
    ELSE LET k == CHOOSE x \in keys : TRUE
         IN m[k] + SumOver(m, keys \ {k})

\* the sum of all values of a count map
SumValues(m) == SumOver(m, DOMAIN m)

\* every cell of every nested map
NestedCells(m) == UNION {{m[a][b] : b \in DOMAIN m[a]} : a \in DOMAIN m}

\* every cell of a top-level map
Cells(m) == {m[k] : k \in DOMAIN m}

\* a stored entry that carries a latency sample
Timed(e) == e.Status # StatusSwitchingProtocols

\* every cell of every count table of the store s equals the number of
\* entries of s that match it
CellsMatch(s) ==
    LET statuses == StatusKeys(s)
        hosts == HostKeys(s)
        ips == IPKeys(s)
        paths == PathKeys(s)
        es == s.entries
        idx == 1..Len(es)
        \* the entries of each host and of each IP, by index
        ofHost == [h \in hosts |-> {i \in idx : Normalize(es[i].Host) = h}]
        ofIP == [p \in ips |-> {i \in idx : Normalize(es[i].IP) = p}]
        ofStatus == [st \in statuses |-> {i \in idx : es[i].Status = st}]
        ofPath == [p \in paths |-> {i \in idx : Normalize(es[i].Path) = p}]
    IN /\ \A st \in statuses :
            Get(s.StatusCounts, st) = Cardinality(ofStatus[st])
       /\ \A h \in hosts :
            /\ Get(s.HostCounts, h) = Cardinality(ofHost[h])
            /\ \A i \in ips :
                 /\ GetNested(s.hostToIPs, h, i)
                      = Cardinality(ofHost[h] \cap ofIP[i])
                 /\ GetNested(s.ipToHosts, i, h)
                      = Cardinality(ofHost[h] \cap ofIP[i])
            /\ \A st \in statuses :
                 GetNested(s.hostToStatus, h, st)
                   = Cardinality(ofHost[h] \cap ofStatus[st])
            /\ \A p \in paths :
                 GetNested(s.hostToPaths, h, p)
                   = Cardinality(ofHost[h] \cap ofPath[p])
       /\ \A i \in ips :
            /\ Get(s.IPCounts, i) = Cardinality(ofIP[i])
            /\ \A st \in statuses :
                 GetNested(s.ipToStatus, i, st)
                   = Cardinality(ofIP[i] \cap ofStatus[st])
            /\ \A p \in paths :
                 GetNested(s.ipToPaths, i, p)
                   = Cardinality(ofIP[i] \cap ofPath[p])

----------------------------------------------------------------------------
(* C1: every cell of every count table equals the number of stored entries
   that match it, an empty host, IP or path being read as "(unknown)". *)
C1_CellsMatchEntries == CellsMatch(Store)

\* entries were evicted (a path cell of the unknown host went back to 0) and
\* the store still holds entries, two of them with the same host and IP
C1_Witness ==
    /\ "(unknown)" \in DOMAIN hostToPaths
    /\ "(unknown)" \in DOMAIN hostToPaths["(unknown)"]
    /\ hostToPaths["(unknown)"]["(unknown)"] = 0
    /\ GetNested(hostToIPs, "a.com", "1.1.1.1") = 2
    /\ Len(entries) = maxEntries

(* C2: TotalCount equals len(entries), and the values of StatusCounts and of
   HostCounts each add up to TotalCount. *)
C2_CountConservation ==
    /\ TotalCount = Len(entries)
    /\ SumValues(StatusCounts) = TotalCount
    /\ SumValues(HostCounts) = TotalCount

\* entries were added and some evicted: a host cell is back to 0
C2_Witness ==
    /\ TotalCount = 2
    /\ \E h \in DOMAIN HostCounts : HostCounts[h] = 0
    /\ \E s \in DOMAIN StatusCounts : StatusCounts[s] = 0

(* C3: both latency sequences have one sample per stored entry whose status
   is not 101, and evicting any prefix of the stored entries trims exactly as
   many samples as that prefix holds entries whose status is not 101. *)
C3_LatencyAlignment ==
    /\ Len(serviceTimes) = Len(connectTimes)
    /\ Len(serviceTimes) = CountEntries(Timed)
    /\ \A count \in 1..Len(entries) :
         LET after == pruneOldest(Store, count)
             timedEvicted == Cardinality({i \in 1..count : Timed(entries[i])})
         IN /\ Len(after.serviceTimes) = Len(serviceTimes) - timedEvicted
            /\ Len(after.connectTimes) = Len(connectTimes) - timedEvicted

\* a store from which Prune evicts two entries, one with status 101 and one
\* without, and trims a single latency sample
C3_Witness ==
    /\ window = Window
    /\ Len(entries) = 3
    /\ PruneCount(entries, now - window) = 2
    /\ Timed(entries[1]) # Timed(entries[2])
    /\ LET after == PruneStore(Store, window, now)
       IN /\ Len(after.entries) = 1
          /\ Len(after.serviceTimes) = Len(serviceTimes) - 1

(* C9: for every host H and IP I, hostToIPs[H][I] = ipToHosts[I][H], a
   missing cell reading as 0. *)
C9_FilterSymmetry ==
    \A h \in HostKeys(Store) \cup IPKeys(Store) :
    \A i \in HostKeys(Store) \cup IPKeys(Store) :
        GetNested(hostToIPs, h, i) = GetNested(ipToHosts, i, h)

\* a pair that is stored, next to a pair whose entries were all evicted
C9_Witness ==
    /\ GetNested(hostToIPs, "a.com", "(unknown)") = 1
    /\ GetNested(ipToHosts, "(unknown)", "a.com") = 1
    /\ "(unknown)" \in DOMAIN hostToIPs
    /\ "1.1.1.1" \in DOMAIN hostToIPs["(unknown)"]
    /\ hostToIPs["(unknown)"]["1.1.1.1"] = 0

(* C10: no cell of a top-level or nested count map is negative, and
   TotalCount is not negative. *)
C10_NoNegativeCount ==
    /\ TotalCount >= 0
    /\ \A c \in Cells(StatusCounts) \cup Cells(HostCounts) \cup Cells(IPCounts) :
         c >= 0
    /\ \A c \in NestedCells(hostToIPs) \cup NestedCells(ipToHosts)
                \cup NestedCells(hostToStatus) \cup NestedCells(ipToStatus)
                \cup NestedCells(hostToPaths) \cup NestedCells(ipToPaths) :
         c >= 0

\* eviction brought top-level and nested cells down to 0, and every stored
\* entry is stale, so that a further Prune finds nothing newer than the cutoff
C10_Witness ==
    /\ window = Window
    /\ 0 \in Cells(HostCounts)
    /\ 0 \in Cells(StatusCounts)
    /\ 0 \in NestedCells(ipToPaths)
    /\ Len(entries) > 0
    /\ \A i \in 1..Len(entries) : ~After(entries[i].Timestamp, now - window)

\* the stored entries are in non-decreasing timestamp order
Chronological(es) ==
    \A i, j \in 1..Len(es) : i < j => es[i].Timestamp <= es[j].Timestamp

(* C4: on a store with window W > 0 whose entries are in non-decreasing
   timestamp order, the store Prune returns holds only entries with
   timestamp > now - W, also when every stored entry is older than the
   window. *)
C4_PruneLeavesOnlyFresh ==
    (window > 0 /\ Chronological(entries)) =>
        LET after == PruneStore(Store, window, now)
        IN \A i \in 1..Len(after.entries) :
               After(after.entries[i].Timestamp, now - window)

(* C5: every step of Prune removes a prefix of the stored entries, and no
   entry of that prefix has a timestamp after the cutoff now - W, in
   whatever order the entries were added. *)
C5_PruneEvictsOnlyStale ==
    [][Prune =>
         \E k \in 0..Len(entries) :
            /\ entries' = Drop(entries, k)
            /\ \A i \in 1..k : ~After(entries[i].Timestamp, now - window)]_vars

\* a store whose entries are out of order (a stale entry behind a recent
\* one) and from which Prune evicts the stale head
C5_Witness ==
    /\ window = Window
    /\ Len(entries) = 3
    /\ ~Chronological(entries)
    /\ PruneCount(entries, now - window) = 1
    /\ ~After(entries[3].Timestamp, now - window)
    /\ Len(PruneStore(Store, window, now).entries) = 2

(* C6: len(entries) never exceeds maxEntries; whatever entry is added to
   whatever reachable store, the store Add returns holds at most maxEntries
   entries, namely the old ones without the oldest len - maxEntries and the
   new one last, and its count tables and latency samples are those of the
   entries it holds, as after pruning. *)
C6_CapEnforced ==
    /\ Len(entries) <= maxEntries
    /\ \A e \in Entry :
         LET after == AddEntry(Store, e)
             all == Append(entries, e)
             excess == IF Len(all) > maxEntries THEN Len(all) - maxEntries ELSE 0
         IN /\ Len(after.entries) <= maxEntries
            /\ after.entries = Drop(all, excess)
            /\ after.entries[Len(after.entries)] = e
            /\ after.TotalCount = Len(after.entries)
            /\ Len(after.serviceTimes) = CountIn(after.entries, Timed)
            /\ Len(after.connectTimes) = CountIn(after.entries, Timed)
            /\ CellsMatch(after)

\* a full store whose oldest entry is the only one of its host: an Add of a
\* line of another host evicts that entry and leaves the host with count 0
C6_Witness ==
    /\ Len(entries) = maxEntries
    /\ TotalCount = maxEntries
    /\ Get(HostCounts, Normalize(entries[1].Host)) = 1
    /\ \E e \in Entry :
          LET after == AddEntry(Store, e)
          IN /\ Normalize(e.Host) # Normalize(entries[1].Host)
             /\ after.entries = Drop(Append(entries, e), 1)
             /\ after.TotalCount = maxEntries
             /\ Normalize(entries[1].Host) \in DOMAIN after.HostCounts
             /\ after.HostCounts[Normalize(entries[1].Host)] = 0

(* C8: every step leaves the stored entries a suffix of what was stored
   before, with at most the one newly added entry appended: entries leave
   only at the head and arrive only at the tail, so the stored sequence is
   always a contiguous suffix of the sequence of entries passed to Add. *)
C8_SuffixOfAppendOrder ==
    [][\E k \in 0..Len(entries) :
          \/ entries' = Drop(entries, k)
          \/ \E e \in Entry : entries' = Drop(Append(entries, e), k)]_vars

\* Prune evicted the head (a status cell is back to 0) and two different
\* entries remain in the order they were added
C8_Witness ==
    /\ window = Window
    /\ 0 \in Cells(StatusCounts)
    /\ Len(entries) = 2
    /\ entries[1] # entries[2]

(* C11: on a store created with window 0, no step of Prune changes the
   entries, TotalCount, a count map or a latency sequence, however old the
   stored entries are. *)
C11_ZeroWindowPruneNoOp ==
    [][(window = 0 /\ Prune) => UNCHANGED storeVars]_vars

\* a store that keeps everything and holds entries at or before the cutoff
\* of a store with the window Window, behind a newer one: Prune on such a
\* store with a window would evict them
C11_Witness ==
    /\ window = 0
    /\ Len(entries) = maxEntries
    /\ PruneCount(entries, now - Window) = 2
    /\ TotalCount = maxEntries
    /\ Len(serviceTimes) > 0

\* the field F of the entries of es that carry a latency sample, in order
TimedValues(es, F(_)) ==
    LET timed == SelectSeq(es, Timed)
    IN [i \in 1..Len(timed) |-> F(timed[i])]

\* v is the value found at the 0-based index k of the samples in ascending
\* order: at most k samples are below v and more than k are at or below it
ValueAtRank(samples, k, v) ==
    /\ Cardinality({i \in 1..Len(samples) : samples[i] < v}) <= k
    /\ k < Cardinality({i \in 1..Len(samples) : samples[i] <= v})

\* v is the largest of the samples
IsMax(samples, v) ==
    /\ \E i \in 1..Len(samples) : samples[i] = v
    /\ \A i \in 1..Len(samples) : samples[i] <= v

\* k is floor(n * p / 100)
IsFloorOfPercent(n, p, k) == 100 * k <= n * p /\ n * p < 100 * (k + 1)

(* C12: the latency sequences hold exactly the service and connect values
   of the stored entries whose status is not 101, in order, and GetStats
   returns their average, their values at the ranks of P50, P95 and P99 and
   their maximum, next to a TotalCount that counts every stored entry. *)
C12_StatsOverStoredTimed ==
    LET svc == TimedValues(entries, LAMBDA e : e.Service)
        conn == TimedValues(entries, LAMBDA e : e.Connect)
        n == Len(svc)
        stats == GetStats(Store)
    IN /\ stats.TotalCount = Len(entries)
       /\ serviceTimes = svc
       /\ connectTimes = conn
       /\ n > 0 =>
            /\ stats.AvgService = SumSeq(svc) \div n
            /\ \E k \in 0..(n - 1) :
                  IsFloorOfPercent(n, 50, k) /\ ValueAtRank(svc, k, stats.P50Service)
            /\ \E k \in 0..(n - 1) :
                  IsFloorOfPercent(n, 95, k) /\ ValueAtRank(svc, k, stats.P95Service)
            /\ \E k \in 0..(n - 1) :
                  IsFloorOfPercent(n, 99, k) /\ ValueAtRank(svc, k, stats.P99Service)
            /\ IsMax(svc, stats.MaxService)
            /\ stats.AvgConnect = SumSeq(conn) \div n
            /\ IsMax(conn, stats.MaxConnect)

\* after an eviction, a full store with one WebSocket upgrade and two
\* samples stored in descending order: TotalCount counts all three entries
\* and the median is the larger sample, stored first
C12_Witness ==
    /\ Len(entries) = 3
    /\ CountEntries(Timed) = 2
    /\ 0 \in Cells(HostCounts)
    /\ Len(serviceTimes) = 2
    /\ serviceTimes[1] > serviceTimes[2]
    /\ GetStats(Store).TotalCount = 3
    /\ GetStats(Store).P50Service = serviceTimes[1]
    /\ GetStats(Store).AvgService < serviceTimes[1]

(* C13: when no stored entry carries a latency sample (the store is empty,
   holds only status-101 entries, or lost every other entry to eviction),
   GetStats returns 0 in every latency field and the number of stored
   entries as TotalCount. *)
C13_NoSamplesZeroStats ==
    CountEntries(Timed) = 0 =>
        GetStats(Store) =
            [TotalCount |-> Len(entries), AvgService |-> 0, P50Service |-> 0,
             P95Service |-> 0, P99Service |-> 0, MaxService |-> 0,
             AvgConnect |-> 0, MaxConnect |-> 0]

\* the entries with another status were pruned (the cell of status 200 is
\* back to 0) and two WebSocket upgrades remain: all-zero latency fields
\* with TotalCount 2
C13_Witness ==
    /\ window = Window
    /\ Len(entries) = 2
    /\ CountEntries(Timed) = 0
    /\ 200 \in DOMAIN StatusCounts
    /\ StatusCounts[200] = 0
    /\ GetStats(Store).TotalCount = 2
    /\ GetStats(Store).MaxService = 0

(* C14: for every sample count n >= 1 the indexes GetStats reads P50, P95
   and P99 at are floor(n*50/100), floor(n*95/100) and floor(n*99/100), the
   last one kept at most n-1, and each lies in 0..n-1; the values GetStats
   returns are the samples at these indexes in ascending order. *)
C14_PercentileIndexInRange ==
    /\ \A n \in 1..IndexLen :
          /\ IsFloorOfPercent(n, 50, PercentileIndex(n, 50))
          /\ IsFloorOfPercent(n, 95, PercentileIndex(n, 95))
          /\ \/ IsFloorOfPercent(n, 99, P99Index(n))
             \/ P99Index(n) = n - 1
          /\ {PercentileIndex(n, 50), PercentileIndex(n, 95), P99Index(n)}
                \subseteq 0..(n - 1)
    /\ (frame.op = "GetStats" /\ Len(serviceTimes) >= 1) =>
          LET n == Len(serviceTimes)
          IN /\ ValueAtRank(serviceTimes, PercentileIndex(n, 50),
                            frame.res.P50Service)
             /\ ValueAtRank(serviceTimes, PercentileIndex(n, 95),
                            frame.res.P95Service)
             /\ ValueAtRank(serviceTimes, P99Index(n), frame.res.P99Service)

\* GetStats returned from a store with a single latency sample, which is
\* P50, P95 and P99 at index 0
C14_Witness ==
    /\ frame.op = "GetStats"
    /\ Len(entries) = 2
    /\ Len(serviceTimes) = 1
    /\ frame.res.P50Service = serviceTimes[1]
    /\ frame.res.P95Service = serviceTimes[1]
    /\ frame.res.P99Service = serviceTimes[1]

\* the limits n the top-N queries are called with
TopLimit == 2

\* the hosts and IPs a query is filtered by: every label of the log lines
\* and one that no line carries
HostFilters == {Normalize(e.Host) : e \in Entry} \cup {"z.com"}

IPFilters == {Normalize(e.IP) : e \in Entry} \cup {"9.9.9.9"}

\* the labels of a slice of CountItem
Labels(top) == {top[i].Label : i \in 1..Len(top)}

\* the slice top holds at most n items of the count map, each label once
\* with its positive count, in non-increasing order of count, and no label
\* left out has a larger count than the last item (none has a positive
\* count when fewer than n items are returned)
TopIsRanked(top, counts, n) ==
    /\ Len(top) <= n
    /\ \A i \in 1..Len(top) :
          /\ top[i].Label \in DOMAIN counts
          /\ top[i].Count = counts[top[i].Label]
          /\ top[i].Count > 0
    /\ \A i, j \in 1..Len(top) :
          i < j => top[i].Label # top[j].Label /\ top[i].Count >= top[j].Count
    /\ \A label \in DOMAIN counts \ Labels(top) :
          IF Len(top) < n THEN counts[label] <= 0
          ELSE Len(top) > 0 => counts[label] <= top[Len(top)].Count

(* C15: whatever slice GetTopHosts(n, "") or GetTopIPs(n, "") returns, it
   holds at most n items, each a label with its strictly positive current
   count (the number of stored entries with that label), in non-increasing
   order of count, and no label left out has a larger count than the
   smallest one returned; a label whose count is 0 is never returned. *)
C15_TopNRanked ==
    \A n \in 0..TopLimit :
       /\ \A top \in GetTopHosts(Store, n, "") :
             /\ TopIsRanked(top, HostCounts, n)
             /\ \A i \in 1..Len(top) :
                   top[i].Count =
                     CountEntries(LAMBDA e : Normalize(e.Host) = top[i].Label)
       /\ \A top \in GetTopIPs(Store, n, "") :
             /\ TopIsRanked(top, IPCounts, n)
             /\ \A i \in 1..Len(top) :
                   top[i].Count =
                     CountEntries(LAMBDA e : Normalize(e.IP) = top[i].Label)

\* the entries of the unknown host were evicted and its count is 0: the top
\* two hosts are the one host left, and the top IP leaves out an IP with a
\* smaller count
C15_Witness ==
    /\ "(unknown)" \in DOMAIN HostCounts
    /\ HostCounts["(unknown)"] = 0
    /\ GetTopHosts(Store, 2, "") = {<<CountItem("a.com", 3)>>}
    /\ GetTopIPs(Store, 1, "") = {<<CountItem("1.1.1.1", 2)>>}
    /\ Get(IPCounts, "(unknown)") = 1

(* C16: two calls of GetTopHosts(n, "") with no Add or Prune between them
   return the same slice, also when several hosts have the same count and n
   is smaller than the number of hosts. *)
C16_TopHostsIdempotent ==
    \A n \in 0..TopLimit :
       \A first, second \in GetTopHosts(Store, n, "") : first = second

(* C17: for a count map and a slice topN returned for that map,
   GetOtherCount plus the counts of the slice is the sum of the positive
   counts of the map, in whatever order the slice lists its labels. *)
C17_OtherCountComplement ==
    \A counts \in {HostCounts, IPCounts} :
    \A n \in 0..TopLimit :
    \A top \in topN(counts, n) :
       LET reversed == [i \in 1..Len(top) |-> top[Len(top) + 1 - i]]
       IN /\ GetOtherCount(counts, top)
               + SumSeq([i \in 1..Len(top) |-> top[i].Count])
             = SumOver(counts, Positive(counts))
          /\ GetOtherCount(counts, reversed) = GetOtherCount(counts, top)

\* with two entries of one host and one of another the top host is the
\* first and the other count is 1, next to an IP whose count is back to 0
C17_Witness ==
    /\ GetTopHosts(Store, 1, "") = {<<CountItem("a.com", 2)>>}
    /\ GetOtherCount(HostCounts, <<CountItem("a.com", 2)>>) = 1
    /\ Get(HostCounts, "(unknown)") = 1
    /\ 0 \in Cells(IPCounts)

(* C18: whatever slice GetTopHosts(n, ip) returns for a non-empty ip, each
   item is a host with the strictly positive number of stored entries that
   carry that host and that IP, and with fewer than n items every such host
   is returned; GetTopIPs(n, host) does the same for the IPs of a host.  A
   pair whose entries were all evicted is not returned. *)
C18_FilteredTopN ==
    \A n \in 0..TopLimit :
       /\ \A ip \in IPFilters :
          \A top \in GetTopHosts(Store, n, ip) :
             /\ Len(top) <= n
             /\ \A i \in 1..Len(top) :
                   /\ top[i].Count > 0
                   /\ top[i].Count =
                        CountEntries(LAMBDA e : Normalize(e.Host) = top[i].Label
                                                /\ Normalize(e.IP) = ip)
             /\ Len(top) < n =>
                   \A h \in HostKeys(Store) :
                      CountEntries(LAMBDA e : Normalize(e.Host) = h
                                              /\ Normalize(e.IP) = ip) > 0
                        => h \in Labels(top)
       /\ \A host \in HostFilters :
          \A top \in GetTopIPs(Store, n, host) :
             /\ Len(top) <= n
             /\ \A i \in 1..Len(top) :
                   /\ top[i].Count > 0
                   /\ top[i].Count =
                        CountEntries(LAMBDA e : Normalize(e.IP) = top[i].Label
                                                /\ Normalize(e.Host) = host)
             /\ Len(top) < n =>
                   \A i \in IPKeys(Store) :
                      CountEntries(LAMBDA e : Normalize(e.IP) = i
                                              /\ Normalize(e.Host) = host) > 0
                        => i \in Labels(top)

\* the one entry of the unknown host with the IP 1.1.1.1 was evicted: the
\* hosts of that IP are a.com alone, with its two entries
C18_Witness ==
    /\ "1.1.1.1" \in DOMAIN ipToHosts
    /\ "(unknown)" \in DOMAIN ipToHosts["1.1.1.1"]
    /\ ipToHosts["1.1.1.1"]["(unknown)"] = 0
    /\ GetTopHosts(Store, 2, "1.1.1.1") = {<<CountItem("a.com", 2)>>}
    /\ GetTopIPs(Store, 1, "a.com") = {<<CountItem("1.1.1.1", 2)>>}
    /\ GetNested(hostToIPs, "a.com", "(unknown)") = 1

(* C19: GetStatusCounts with at most one filter returns one item for each
   status that some stored entry matching the filter carries (every entry
   without a filter, those of the host or of the IP with one), in strictly
   ascending order of status, with the strictly positive number of such
   entries as its count. *)
C19_StatusCountsSorted ==
    \A filterHost \in HostFilters \cup {""} :
    \A filterIP \in IPFilters \cup {""} :
       (filterHost = "" \/ filterIP = "") =>
          LET items == GetStatusCounts(Store, filterHost, filterIP)
              Matches(e) == /\ filterHost # "" => Normalize(e.Host) = filterHost
                            /\ filterIP # "" => Normalize(e.IP) = filterIP
          IN /\ \A i, j \in 1..Len(items) :
                   i < j => items[i].Status < items[j].Status
             /\ \A i \in 1..Len(items) :
                   /\ items[i].Count > 0
                   /\ items[i].Count =
                        CountEntries(LAMBDA e : Matches(e)
                                                /\ e.Status = items[i].Status)
             /\ \A status \in StatusKeys(Store) :
                   CountEntries(LAMBDA e : Matches(e) /\ e.Status = status) > 0
                     => \E i \in 1..Len(items) : items[i].Status = status

\* the one status-200 entry of the unknown host was evicted: its statuses
\* are 101 alone, while the store as a whole has both, 101 first
C19_Witness ==
    /\ GetNested(hostToStatus, "(unknown)", 200) = 0
    /\ 200 \in DOMAIN NestedMap(hostToStatus, "(unknown)")
    /\ GetStatusCounts(Store, "(unknown)", "") =
          <<StatusCountItem(StatusSwitchingProtocols, 1)>>
    /\ GetStatusCounts(Store, "", "") =
          <<StatusCountItem(StatusSwitchingProtocols, 2), StatusCountItem(200, 1)>>
    /\ GetStatusCounts(Store, "", "1.1.1.1") # <<>>

\* paths that the display hides: the three listed ones and some that begin
\* with /system-status- or /hirefire
Denylisted ==
    {"/ahoy/events", "/ahoy/visits", "/robots.txt", "/system-status-abc",
     "/system-status-", "/hirefire/test", "/hirefire", "/hirefire2"}

\* paths that it shows: plain ones, and ones that extend a listed path, fall
\* short of a prefix or carry it elsewhere than at the start
Shown ==
    {"/api/users", "/", "(unknown)", "/robots.txt.bak", "/robots.tx",
     "/ahoy/events/", "/ahoy", "/system-status", "/hirefir", "/x/hirefire",
     "/api/robots.txt"}

(* C20: whatever slice GetTopPaths or GetAllPaths returns, none of its
   labels is a denylisted path, each label has the number of stored entries
   with that path (and the selected host or IP) as its count, and with
   fewer than n items every path of a stored entry (of the selected host or
   IP) that is not denylisted is returned. *)
C20_DenylistedPathsHidden ==
    /\ \A path \in Denylisted : isExcludedPath(path)
    /\ \A path \in Shown : ~isExcludedPath(path)
    /\ {Normalize(e.Path) : e \in PathEntry} \subseteq Denylisted \cup Shown
    /\ \A n \in 0..TopLimit :
          /\ \A host \in HostFilters \cup {""} :
             \A ip \in IPFilters \cup {""} :
             \A top \in GetTopPaths(Store, n, host, ip) :
                LET Selected(e) == IF host # "" THEN Normalize(e.Host) = host
                                   ELSE Normalize(e.IP) = ip
                IN /\ Labels(top) \cap Denylisted = {}
                   /\ \A i \in 1..Len(top) :
                         /\ top[i].Count > 0
                         /\ top[i].Count =
                              CountEntries(LAMBDA e : Selected(e)
                                             /\ Normalize(e.Path) = top[i].Label)
                   /\ (Len(top) < n /\ (host # "" \/ ip # "")) =>
                         \A i \in 1..Len(entries) :
                            (Selected(entries[i])
                               /\ Normalize(entries[i].Path) \notin Denylisted)
                              => Normalize(entries[i].Path) \in Labels(top)
          /\ \A top \in GetAllPaths(Store, n) :
                /\ Labels(top) \cap Denylisted = {}
                /\ \A i \in 1..Len(top) :
                      top[i].Count =
                        CountEntries(LAMBDA e : Normalize(e.Path) = top[i].Label)
                /\ Len(top) < n =>
                      \A i \in 1..Len(entries) :
                         Normalize(entries[i].Path) \notin Denylisted
                           => Normalize(entries[i].Path) \in Labels(top)

\* a full store from which an entry was evicted, with a path under the
\* prefix /hirefire, the listed path /robots.txt and a path that extends it:
\* only the last one is returned for the host and over all hosts
C20_Witness ==
    /\ 0 \in NestedCells(hostToPaths)
    /\ GetNested(hostToPaths, "a.com", "/hirefire/test") = 1
    /\ GetNested(hostToPaths, "a.com", "/robots.txt") = 1
    /\ GetTopPaths(Store, 2, "a.com", "") = {<<CountItem("/robots.txt.bak", 1)>>}
    /\ GetTopPaths(Store, 2, "", "1.1.1.1") = {<<CountItem("/robots.txt.bak", 1)>>}
    /\ GetAllPaths(Store, 2) = {<<CountItem("/robots.txt.bak", 1)>>}

(* C7: with the producer in Add and the consumer in Prune and the queries,
   interleaved statement by statement, the result a query is about to return
   is the result of that query on the store as the last completed Add or
   Prune left it, and every Add or Prune that completes has changed the store as the
   whole operation does. *)
C7_QueriesSeeWholeOperations ==
    /\ pc.consumer = "Query_return" =>
          frame.res = QueryResult(frame.op, committed)
    /\ pc.producer = "unlock" => Store = AddEntry(committed, frame.e)
    /\ pc.consumer = "Prune_unlock" =>
          Store = PruneStore(committed, window, frame.cutoff + window)

\* a query has returned a result with latency statistics while the producer
\* is waiting for the lock with the next entry, after an eviction by Prune
C7_Witness ==
    /\ pc.consumer = "Query_return"
    /\ frame.op = "GetStats"
    /\ frame.res.TotalCount = 2
    /\ frame.res.MaxService > 0
    /\ pc.producer = "lock"
    /\ 0 \in Cells(StatusCounts)

----------------------------------------------------------------------------
(* The error rates *)

\* the stored entries whose status lies in lo..(hi - 1)
StatusIn(es, lo, hi) == CountIn(es, LAMBDA e : e.Status >= lo /\ e.Status < hi)

\* C21: GetErrorRates returns (0, 0) on an empty store; otherwise rate4xx is
\* 100 times the number of stored entries with a status in [400,500) over
\* TotalCount and rate5xx is 100 times the number with a status in [500,600)
\* over TotalCount, each as the float64 quotient; the other entries count in
\* the denominator only.
C21_ErrorRates ==
    GetErrorRates(Store) =
        IF entries = <<>> THEN ErrorRates(F64Zero, F64Zero)
        ELSE ErrorRates(F64Div(100 * StatusIn(entries, 400, 500), TotalCount),
                        F64Div(100 * StatusIn(entries, 500, 600), TotalCount))

\* a 4xx line, a 5xx line and a line with status 600 are stored
C21_Witness ==
    /\ Len(entries) = maxEntries
    /\ StatusIn(entries, 400, 500) = 1
    /\ StatusIn(entries, 500, 600) = 1
    /\ \E i \in 1..Len(entries) : entries[i].Status = 600
    /\ GetErrorRates(Store).Rate4xx = F64Div(100, 3)

\* the hosts, IPs and paths a caller asks about
RateHosts == {e.Host : e \in RateEntry}
RateIPs == {e.IP : e \in RateEntry}
RatePaths == {Normalize(e.Path) : e \in RateEntry}

\* C22: when every stored entry has the host h (the IP i, the path p),
\* GetErrorRatesForHost(h) (ForIP(i), ForPath(p)) returns the two rates
\* GetErrorRates returns, whatever statuses the entries carry.
C22_SameClassification ==
    entries # <<>> =>
        /\ \A h \in RateHosts :
              (\A i \in 1..Len(entries) : entries[i].Host = h)
                  => GetErrorRatesForHost(Store, h) = GetErrorRates(Store)
        /\ \A a \in RateIPs :
              (\A i \in 1..Len(entries) : entries[i].IP = a)
                  => GetErrorRatesForIP(Store, a) = GetErrorRates(Store)
        /\ \A q \in RatePaths :
              (\A i \in 1..Len(entries) : Normalize(entries[i].Path) = q)
                  => GetErrorRatesForPath(Store, q) = GetErrorRates(Store)

----------------------------------------------------------------------------
(* The trend *)

\* the stored entries of the recent period as GetTrend forms it: those with a
\* timestamp after now - period
RecentBucket == {i \in 1..Len(entries) : entries[i].Timestamp > now - TrendPeriod}

\* the stored entries of the period before it: those with a timestamp after
\* now - 2*period and not after now - period
OldBucket ==
    {i \in 1..Len(entries) : /\ entries[i].Timestamp > now - 2 * TrendPeriod
                              /\ entries[i].Timestamp <= now - TrendPeriod}

\* the errors among the entries at the indexes is
ErrorsAt(is) == Cardinality({i \in is : entries[i].Status >= 400})

\* C23: whenever the recent period or the period before it holds fewer than
\* 10 entries, GetTrend returns Stable and GetTrendWithDiff returns the
\* difference 0, whatever the error rates in the two periods.
C23_FewSamplesStable ==
    (Cardinality(RecentBucket) < 10 \/ Cardinality(OldBucket) < 10) =>
        /\ GetTrend(Store, TrendPeriod, now) = TrendStable
        /\ GetTrendWithDiff(Store, TrendPeriod, now) =
               [diff |-> F64Zero, trend |-> TrendStable]

\* nine entries without an error in the older period, ten entries with three
\* errors in the recent one
C23_Witness ==
    /\ Cardinality(OldBucket) = 9
    /\ ErrorsAt(OldBucket) = 0
    /\ Cardinality(RecentBucket) = 10
    /\ ErrorsAt(RecentBucket) = 3
    /\ GetTrend(Store, TrendPeriod, now) = TrendStable

\* the recent rate less the old rate, less 2 points, times the two totals
\* and 100: the sign says on which side of 2 points the difference lies
OverTwoPoints(recentErrors, recentTotal, oldErrors, oldTotal) ==
    100 * (recentErrors * oldTotal - oldErrors * recentTotal)
        - 2 * recentTotal * oldTotal

\* C24: when both periods hold at least 10 entries, GetTrend returns Up
\* exactly when the recent error rate is more than 2 percentage points
\* above the old one, Down exactly when it is more than 2 points below it,
\* and Stable otherwise; a difference of exactly 2 points is Stable.
C24_TrendByTwoPoints ==
    LET rt == Cardinality(RecentBucket)
        re == ErrorsAt(RecentBucket)
        ot == Cardinality(OldBucket)
        oe == ErrorsAt(OldBucket)
        trend == GetTrend(Store, TrendPeriod, now)
    IN (rt >= 10 /\ ot >= 10) =>
          /\ trend = TrendUp <=> OverTwoPoints(re, rt, oe, ot) > 0
          /\ trend = TrendDown <=> OverTwoPoints(oe, ot, re, rt) > 0
          /\ trend \in {TrendUp, TrendDown, TrendStable}

\* C25 as stated: an entry is in the recent period exactly when its
\* timestamp lies in [now - period, now), in the period before exactly when
\* it lies in [now - 2*period, now - period), and in neither otherwise.
C25_HalfOpenBuckets ==
    LET b == TrendBuckets(Store, TrendPeriod, now)
    IN /\ b.recentTotal =
            CountIn(entries, LAMBDA e : /\ e.Timestamp >= now - TrendPeriod
                                        /\ e.Timestamp < now)
       /\ b.oldTotal =
            CountIn(entries, LAMBDA e : /\ e.Timestamp >= now - 2 * TrendPeriod
                                        /\ e.Timestamp < now - TrendPeriod)

\* C25, amended: an entry is in the recent period exactly when its timestamp
\* is after now - period, in the period before exactly when its timestamp is
\* after now - 2*period and not after now - period, and in neither when its
\* timestamp is not after now - 2*period; the errors of a period are its
\* entries with a status of 400 or more.
C25_BucketsAfterCutoffs ==
    LET b == TrendBuckets(Store, TrendPeriod, now)
    IN /\ b.recentTotal = Cardinality(RecentBucket)
       /\ b.oldTotal = Cardinality(OldBucket)
       /\ b.recentErrors = ErrorsAt(RecentBucket)
       /\ b.oldErrors = ErrorsAt(OldBucket)
       /\ Len(entries) - b.recentTotal - b.oldTotal =
            CountIn(entries, LAMBDA e : e.Timestamp <= now - 2 * TrendPeriod)

\* an entry stamped now - period is stored after entries of the period
\* before, and the scan counts it with them
C25_Witness ==
    /\ \E i \in 1..Len(entries) : entries[i].Timestamp = now - TrendPeriod
    /\ \E i \in 1..Len(entries) : entries[i].Timestamp = now - 2 * TrendPeriod + 1
    /\ \E i \in 1..Len(entries) : entries[i].Timestamp > now - TrendPeriod
    /\ TrendBuckets(Store, TrendPeriod, now).oldTotal
          = 1 + Cardinality(Aged(entries, OldAge))

----------------------------------------------------------------------------
(* The request rate *)

\* C26: on a store whose entries are in non-decreasing timestamp order,
\* GetCurrentRate(window) is the number of stored entries with a timestamp
\* after now - window divided by the seconds of the window, as a float64,
\* and 0 on the empty store.
C26_CurrentRate ==
    Chronological(entries) =>
        \A w \in 1..RateWindow :
            GetCurrentRate(Store, w, now) =
                IF entries = <<>> THEN F64Zero
                ELSE F64Div(CountIn(entries,
                                    LAMBDA e : e.Timestamp > now - w), w)

\* an entry that has left the window of one second before two that are in it
C26_Witness ==
    /\ Len(entries) = 3
    /\ Chronological(entries)
    /\ entries[1].Timestamp <= now - 1
    /\ entries[2].Timestamp > now - 1
    /\ GetCurrentRate(Store, 1, now) = F64Div(2, 1)

----------------------------------------------------------------------------
(* What the UI reads from the store *)

\* the values refreshData caches in the Model
Cached(m) ==
    [stats |-> m.stats, statusCounts |-> m.statusCounts,
     topHosts |-> m.topHosts, topIPs |-> m.topIPs, topPaths |-> m.topPaths,
     otherHosts |-> m.otherHosts, otherIPs |-> m.otherIPs,
     rate4xx |-> m.rate4xx, rate5xx |-> m.rate5xx,
     uniqueHosts |-> m.uniqueHosts, uniqueIPs |-> m.uniqueIPs,
     uniquePaths |-> m.uniquePaths, currentRate |-> m.currentRate,
     trend |-> m.trend, trend5m |-> m.trend5m,
     hostErrRates |-> m.hostErrRates, ipErrRates |-> m.ipErrRates,
     pathErrRates |-> m.pathErrRates]

\* C27: every value the UI has read from the store is a copy: the Add of a
\* later EntryMsg changes neither the values the last refreshData cached in
\* the Model nor the count maps it handed to GetOtherCount.
C27_HeldValuesAreCopies ==
    [][EntryMsg =>
          /\ Cached(UIModel') = Cached(UIModel)
          /\ \A i \in DOMAIN frame.args :
                Deref(frame.args[i], HostCounts', IPCounts')
                    = Deref(frame.args[i], HostCounts, IPCounts)]_vars

----------------------------------------------------------------------------
(* Every call returns *)

\* C28: with a producer that calls Add and a consumer that calls Prune and
\* the queries, every call of a store operation returns: no method takes
\* s.mu while its caller holds it, so no interleaving leaves a goroutine
\* waiting for ever.
C28_EveryCallReturns ==
    /\ (pc.producer # "idle") ~> (pc.producer = "idle")
    /\ (pc.consumer # "idle") ~> (pc.consumer = "idle")

\* Add waits for the lock while a query runs its helper under the read lock
C28_Witness ==
    /\ pc.producer = "lock"
    /\ pc.consumer = "Query_return"
    /\ mu.readers = 1
    /\ frame.op = "GetTrend"

----------------------------------------------------------------------------
(* The queries only read *)

----------------------------------------------------------------------------
(* The keys that quit *)

\* C30, as stated: pressing q or Ctrl+C makes the UI return the quit command
\* in every UI state, a visible modal and the help screen included.
C30_QuitInEveryState ==
    [][KeyMsg("q") \/ KeyMsg("ctrl+c") => frame'.op = "tea.Quit"]_vars

\* C30, amended: pressing q or Ctrl+C returns the quit command exactly when
\* no modal is visible and the help screen is not showing, and then leaves
\* the Model as it is.  While a modal is visible q only hides it and Ctrl+C
\* changes nothing; while the help screen is showing either key only
\* dismisses it.
C30_QuitUnlessModalOrHelp ==
    [][\A key \in {"q", "ctrl+c"} :
          KeyMsg(key) =>
             LET m == UIModel
             IN /\ frame'.op = "tea.Quit"
                      <=> ~m.modal.Visible /\ ~m.showHelp
                /\ m.modal.Visible =>
                      UIModel' = IF key = "q"
                                 THEN [m EXCEPT !.modal.Visible = FALSE,
                                                !.modal.Content = ""]
                                 ELSE m
                /\ ~m.modal.Visible /\ m.showHelp =>
                      UIModel' = [m EXCEPT !.showHelp = FALSE]
                /\ ~m.modal.Visible /\ ~m.showHelp => UIModel' = m]_vars

\* the UI has returned the quit command with a filter set, where Esc clears
\* the filter: q or Ctrl+C was pressed
C30_Witness ==
    /\ frame.op = "tea.Quit"
    /\ UIModel.filter.Host # ""
    /\ ~UIModel.modal.Visible
    /\ ~UIModel.showHelp

----------------------------------------------------------------------------
(* Prune after the traffic has stopped *)

\* C31: on a store with window W > 0 whose newest entry is older than W,
\* the store Prune returns is empty: TotalCount is 0 and no latency sample
\* is left, so stale data does not stay once the traffic has stopped.
C31_StalePruneEmpties ==
    (/\ window > 0
     /\ Len(entries) > 0
     /\ \A i \in 1..Len(entries) : entries[i].Timestamp < now - window) =>
        LET after == PruneStore(Store, window, now)
        IN /\ after.TotalCount = 0
           /\ after.entries = <<>>
           /\ after.serviceTimes = <<>>
           /\ after.connectTimes = <<>>

----------------------------------------------------------------------------
(* The hysteresis of the displayed trend *)

\* 0.01 as a float64
OnePoint == F64Div(1, 100)

\* -0.01 < diff < 0.01
WithinOnePoint(diff) ==
    /\ F64Greater(OnePoint, diff)
    /\ F64Greater(diff, F64Neg(OnePoint))

\* C32: updateTrendWithHysteresis returns the raw trend whenever the raw
\* trend is Up or Down; when the raw trend is Stable it returns Stable if
\* current is Stable or the absolute rate difference is below 0.01, and
\* otherwise it keeps current.
C32_Hysteresis ==
    [][RefreshTrend =>
          LET raw == frame'.res.raw
              current == DisplayedTrend
          IN frame'.res.trend =
                IF raw.trend # TrendStable THEN raw.trend
                ELSE IF current = TrendStable \/ WithinOnePoint(raw.diff)
                THEN TrendStable
                ELSE current]_vars

\* a refresh has kept a displayed Down although the raw trend was Stable
C32_Witness ==
    /\ frame.op = "refreshData"
    /\ frame.res.trend = TrendDown
    /\ frame.res.raw.trend = TrendStable
    /\ ~WithinOnePoint(frame.res.raw.diff)

\* C33: after a refresh the displayed trend is Up only if the difference
\* that refresh saw is at least 0.01, and Down only if it is at most -0.01:
\* a displayed Up does not survive a refresh whose difference is below 0.01,
\* a negative one included, nor a displayed Down one above -0.01.
C33_TrendNeedsOnePoint ==
    frame.op = "refreshData" =>
        /\ frame.res.trend = TrendUp
               => ~F64Greater(OnePoint, frame.res.raw.diff)
        /\ frame.res.trend = TrendDown
               => ~F64Greater(frame.res.raw.diff, F64Neg(OnePoint))

----------------------------------------------------------------------------
(* The latency samples under Add, Prune and the cap *)

\* C34: in every state reached by Add, Prune and the eviction at the cap,
\* serviceTimes is exactly the sequence of the Service values, and
\* connectTimes of the Connect values, of the stored entries whose status
\* is not 101, in the order of the entries: an eviction removes the samples
\* of the evicted entries and no others.
C34_SamplesOfStoredEntries ==
    /\ serviceTimes = TimedValues(entries, LAMBDA e : e.Service)
    /\ connectTimes = TimedValues(entries, LAMBDA e : e.Connect)

\* after an eviction (a host is left with the count 0) the store holds
\* entries with and without a latency sample
C34_Witness ==
    /\ \E h \in DOMAIN HostCounts : HostCounts[h] = 0
    /\ \E i \in 1..Len(entries) : ~Timed(entries[i])
    /\ \E i \in 1..Len(entries) : Timed(entries[i])
    /\ Len(serviceTimes) > 0

----------------------------------------------------------------------------
(* The errors of the trend and the errors of the displayed rates *)

\* GetErrorRates counts the status of e as 4xx or 5xx: on a store holding
\* only e one of its two rates is not 0
CountedByGetErrorRates(e) ==
    GetErrorRates(AddBody(New, e)) # ErrorRates(F64Zero, F64Zero)

\* C35: GetTrendWithDiff counts a stored entry as an error exactly when
\* GetErrorRates counts its status as 4xx or 5xx: the errors of its two
\* periods are the entries of the periods whose status GetErrorRates counts.
C35_SameNotionOfError ==
    LET cutoff == now - 2 * TrendPeriod
        b == TrendBuckets(Store, TrendPeriod, now)
        counted == {i \in 1..Len(entries) :
                      /\ After(entries[i].Timestamp, cutoff)
                      /\ CountedByGetErrorRates(entries[i])}
    IN b.recentErrors + b.oldErrors = Cardinality(counted)

----------------------------------------------------------------------------
(* The values one refresh caches *)

\* the sum of the counts of the rows of a table
RECURSIVE RowTotal(_)
RowTotal(top) ==
    IF top = <<>> THEN 0 ELSE top[1].Count + RowTotal(Tail(top))

\* C36: the values cached by one refreshData describe the same contents of
\* the store: with no filter set, otherHosts plus the counts of topHosts is
\* stats.TotalCount, and so is otherIPs plus the counts of topIPs; no Add
\* takes effect between the store calls of one refresh.
C36_RefreshSeesOneStore ==
    LET m == UIModel
    IN (m.filter.Host = "" /\ m.filter.IP = "") =>
          /\ m.otherHosts + RowTotal(m.topHosts) = m.stats.TotalCount
          /\ m.otherIPs + RowTotal(m.topIPs) = m.stats.TotalCount

\* a refresh without a filter has cached tables of hosts and of IPs with a
\* row each and other hosts and IPs beside them
C36_Witness ==
    /\ frame.res # <<>>
    /\ UIModel.filter.Host = "" /\ UIModel.filter.IP = ""
    /\ Len(UIModel.topHosts) > 0
    /\ UIModel.otherHosts > 0
    /\ Len(UIModel.topIPs) > 0
    /\ UIModel.otherIPs > 0

----------------------------------------------------------------------------
(* The filter *)

\* at most one field of the filter of m is set
OneFilter(m) == m.filter.Host = "" \/ m.filter.IP = ""

\* the filter Enter takes from the row under the cursor of m
RowFilter(m) ==
    IF m.section = SectionHosts
    THEN [Host |-> m.topHosts[m.hostCursor + 1].Label, IP |-> ""]
    ELSE [Host |-> "", IP |-> m.topIPs[m.ipCursor + 1].Label]

\* the cursor of the section of m is on a row
OnRow(m) ==
    IF m.section = SectionHosts THEN m.hostCursor < Len(m.topHosts)
    ELSE m.ipCursor < Len(m.topIPs)

\* the Model and the command Update returns for a key pressed on m, its
\* refreshData included
KeyOutcomes(m, key) ==
    LET outcomes(h) ==
            IF h.refresh
            THEN {[m |-> r.m, cmd |-> h.cmd] : r \in refreshData(h.m, Store, now)}
            ELSE {[m |-> h.m, cmd |-> h.cmd]}
    IN outcomes(handleKey(m, key))

\* Esc clears a filter that is set and does not quit, and quits without one
EscClearsOrQuits(m) ==
    \A o \in KeyOutcomes(m, "esc") :
        IF m.filter.Host # "" \/ m.filter.IP # ""
        THEN /\ o.m.filter = [Host |-> "", IP |-> ""]
             /\ o.cmd # "tea.Quit"
        ELSE o.cmd = "tea.Quit"

\* Enter on a row replaces the filter by the filter of the row
EnterTakesRow(m) ==
    OnRow(m) =>
        \A o \in KeyOutcomes(m, "enter") :
            /\ o.m.filter = RowFilter(m)
            /\ OneFilter(o.m)
            /\ o.m.filter # [Host |-> "", IP |-> ""]

\* C37 as stated: in every state at most one of filter.Host and filter.IP
\* is set; Enter replaces the whole filter by the host-only or IP-only
\* filter of the row under the cursor; Esc with a filter set clears both
\* fields and does not quit; Esc with no filter set quits.
C37_FilterKeysInEveryState ==
    /\ OneFilter(UIModel)
    /\ Running => EnterTakesRow(UIModel) /\ EscClearsOrQuits(UIModel)

\* C37: in every state at most one of filter.Host and filter.IP is set.
\* While no modal is visible and the help is not showing, Enter replaces
\* the whole filter by the host-only or IP-only filter of the row under the
\* cursor, Esc with a filter set clears both fields and does not quit, and
\* Esc with no filter set quits; while a modal is visible or the help is
\* showing, Enter and Esc leave the filter as it is and do not quit.
C37_FilterKeysOutsideModal ==
    LET m == UIModel
    IN /\ OneFilter(m)
       /\ Running =>
             IF m.modal.Visible \/ m.showHelp
             THEN \A key \in {"enter", "esc"} :
                     \A o \in KeyOutcomes(m, key) :
                         o.m.filter = m.filter /\ o.cmd # "tea.Quit"
             ELSE EnterTakesRow(m) /\ EscClearsOrQuits(m)

\* a filter by IP is set, the table of the hosts shows the hosts of that IP
\* and no modal and no help is up
C37_Witness ==
    /\ frame.res # <<>>
    /\ UIModel.filter.IP # "" /\ UIModel.filter.Host = ""
    /\ Len(UIModel.topHosts) > 0
    /\ ~UIModel.modal.Visible /\ ~UIModel.showHelp
    /\ frame.op = "nil"

----------------------------------------------------------------------------
(* The cursors *)

\* C38: after every key event and every refreshData the cursors are inside
\* their tables, 0 <= hostCursor <= max(0, len(topHosts) - 1) and
\* 0 <= ipCursor <= max(0, len(topIPs) - 1), also when a refresh shrinks
\* the tables: the selected row exists whenever the table has rows.
C38_CursorsInsideTables ==
    LET m == UIModel
    IN /\ 0 <= m.hostCursor /\ m.hostCursor <= max(0, Len(m.topHosts) - 1)
       /\ 0 <= m.ipCursor /\ m.ipCursor <= max(0, Len(m.topIPs) - 1)

\* after a refresh the table of the hosts has a single row, with the cursor
\* on it, and the table of the IPs is full, with the cursor on its last row
C38_Witness ==
    /\ frame.op = "tickCmd"
    /\ Len(UIModel.topHosts) = 1 /\ UIModel.hostCursor = 0
    /\ Len(UIModel.topIPs) = MaxRows /\ UIModel.ipCursor = MaxRows - 1

----------------------------------------------------------------------------
(* The keys while the modal is visible *)

\* C39: while the modal is visible, Esc, Enter and q hide it (Visible
\* false, Content cleared) without quitting and without changing the
\* section, the cursors or the filter, and every other key leaves the whole
\* Model as it is.
C39_ModalKeys ==
    [][\A key \in Keys :
          UIModel.modal.Visible /\ KeyMsg(key) =>
              /\ frame'.op # "tea.Quit"
              /\ IF key \in {"esc", "enter", "q"}
                 THEN /\ ~UIModel'.modal.Visible
                      /\ UIModel'.modal.Content = ""
                      /\ UIModel'.section = UIModel.section
                      /\ UIModel'.hostCursor = UIModel.hostCursor
                      /\ UIModel'.ipCursor = UIModel.ipCursor
                      /\ UIModel'.filter = UIModel.filter
                 ELSE UIModel' = UIModel]_vars

\* a modal that was shown with a filter set has been hidden: its title is
\* left, its content is cleared and the program runs on
C39_Witness ==
    /\ frame.res # <<>>
    /\ ~UIModel.modal.Visible
    /\ UIModel.modal.Title # ""
    /\ UIModel.modal.Content = ""
    /\ UIModel.filter.IP # ""
    /\ frame.op = "nil"

====
